---- MODULE Spec2Model ----
(***************************************************************************)
(* State-machine model of the coroutine runtime of lib_coroutine:         *)
(* IOManager (epoll event table, idle fiber), Scheduler (task queue, run   *)
(* loop, stop) and TimerManager (ordered timer set, expiry, rollover).     *)
(* The IOManager is the default configuration IOManager(NumThreads, true): *)
(* thread 1 is the caller thread (it runs user code until it calls stop(), *)
(* then runs the run loop in the root fiber), threads 2..NumThreads are    *)
(* the spawned workers.                                                    *)
(***************************************************************************)
EXTENDS Integers, Sequences, FiniteSets, TLC

\* ------------------------------------------------------------------ bounds
NumFds == 2
NumThreads == 2
MaxRegs == 2
MaxUserTasks == 1
MaxTimers == 1
NumTimers == 2
MaxPipe == 1
MaxTicks == 2
MaxFibers == 3
MaxFd == 3

\* ------------------------------------------------------- program constants
READ == 1
WRITE == 4
HourMs == 3600000
MAX_TIMEOUT == 5000

\* Fds: the fds inside the table IOManager::IOManager allocates
\* (contextResize(32), scaled to NumFds); AllFds adds fds beyond it
Fds == 0 .. (NumFds - 1)
AllFds == 0 .. MaxFd
Threads == 1 .. NumThreads
CallerThread == 1
Events == {READ, WRITE}
TickleFd == -1

NoCb == <<"none", 0>>
NoTimeout == -1

\* ------------------------------------------------------------------- state
VARIABLES
    fdContexts,          \* *m_fdContexts[fd]: fd -> [events, read, write]
    m_fdContexts,        \* the vector: [size, slot: index -> id of the FdContext object, allocs]
    addLocal,            \* per thread: fd of an addEvent waiting for the write lock, pc to return to
    epollInterest,       \* kernel interest list of m_epfd: fd -> [reg, ev]
    pendingEventCount,   \* m_pendingEventCount
    tasks,               \* Scheduler::m_tasks
    tickleBytes,         \* bytes waiting in the m_tickleFds pipe
    activeThreadCount,   \* m_activeThreadCount
    idleThreadCount,     \* m_idleThreadCount
    stoppingFlag,        \* Scheduler::m_stopping
    pc,                  \* per thread: position in user code / run / idle
    cur,                 \* per thread: the task being resumed by run()
    idleLocal,           \* per thread: locals of the idle fiber
    m_timers,            \* TimerManager::m_timers (set of timer ids)
    timer,               \* timer id -> Timer fields
    m_tickled,           \* TimerManager::m_tickled
    m_previousTime,      \* TimerManager::m_previousTime
    clock,               \* value GetElapsedMS() returns now
    fiberState,          \* fiber id -> Fiber::m_state (NONE: no such object)
    nextId,              \* counters: regs, user tasks, timers, ticks, tasks enqueued by table operations
    crashed,             \* the process died (null dereference)
    fired,               \* history: registration id -> times its context was enqueued
    hist                 \* history: the last table operation, the last listExpiredCb

tableVars == <<m_fdContexts, addLocal>>
ioVars == <<fdContexts, epollInterest, pendingEventCount, tableVars>>
schedVars == <<tasks, tickleBytes, activeThreadCount, idleThreadCount, stoppingFlag>>
threadVars == <<pc, cur, idleLocal>>
timerVars == <<m_timers, timer, m_tickled, m_previousTime, clock>>
histVars == <<nextId, crashed, fired, hist>>
vars == <<ioVars, schedVars, threadVars, timerVars, fiberState, histVars>>

\* ------------------------------------------------------------ FdContext
\* struct EventContext {scheduler, fiber, cb}; reg is the history tag of the
\* add_event call that stored the fiber (a callback carries its own tag).
EmptyEventContext == [scheduler |-> 0, fiber |-> 0, cb |-> NoCb, reg |-> 0]

EmptyFdContext == [events |-> {}, read |-> EmptyEventContext, write |-> EmptyEventContext]

getEventContext(fc, event) == IF event = READ THEN fc.read ELSE fc.write

SetEventContext(fc, event, ctx) ==
    IF event = READ THEN [fc EXCEPT !.read = ctx] ELSE [fc EXCEPT !.write = ctx]

\* a reset that leaves the context as it is
resetEventContext_Keep(ctx) == ctx

\* FdContext::resetEventContext
resetEventContext(ctx) == EmptyEventContext

NoTask == [fiber |-> 0, cb |-> NoCb, thread |-> -1, reg |-> 0]

\* ScheduleTask(fc, thread): callers below always pass thread = -1
ScheduleTask(fiber, cb, thread, reg) ==
    [fiber |-> fiber, cb |-> cb, thread |-> thread, reg |-> reg]

\* Scheduler::scheduleNoLock + Scheduler::schedule + IOManager::tickle on the
\* pair st = [tasks, tickleBytes]; idle is m_idleThreadCount.
\* a push that keeps the task only when the queue is empty
scheduleNoLock_IfEmpty(q, task) ==
    [need_tickle |-> (q = <<>>),
     q |-> IF (task.fiber # 0 \/ task.cb # NoCb) /\ q = <<>> THEN Append(q, task) ELSE q]

scheduleNoLock(q, task) ==
    [need_tickle |-> (q = <<>>),
     q |-> IF task.fiber # 0 \/ task.cb # NoCb THEN Append(q, task) ELSE q]

tickle(bytes, idle) ==
    IF idle > 0 THEN (IF bytes < MaxPipe THEN bytes + 1 ELSE bytes) ELSE bytes

RECURSIVE TickleTimes(_, _, _)
TickleTimes(n, bytes, idle) ==
    IF n = 0 THEN bytes ELSE TickleTimes(n - 1, tickle(bytes, idle), idle)

schedule(st, task, idle) ==
    LET r == scheduleNoLock(st.tasks, task) IN
    [tasks |-> r.q,
     tickleBytes |-> IF r.need_tickle THEN tickle(st.tickleBytes, idle) ELSE st.tickleBytes,
     fired |-> IF task.reg # 0 /\ (task.fiber # 0 \/ task.cb # NoCb)
               THEN [st.fired EXCEPT ![task.reg] = @ + 1] ELSE st.fired]

\* ------------------------------------------------- epoll_ctl (the kernel)
\* ep = [reg, ev]: whether the fd is in the interest list and with which
\* events.  EPOLL_CTL_ADD fails on a registered fd (EEXIST), MOD and DEL on
\* an unregistered one (ENOENT); fail is any other failure (EBADF, ENOMEM..).
epoll_ctl(ep, op, mask, fail) ==
    LET ok == ~fail /\ (IF op = "ADD" THEN ~ep.reg ELSE ep.reg) IN
    [ok |-> ok,
     ep |-> IF ~ok THEN ep
            ELSE IF op = "DEL" THEN [reg |-> FALSE, ev |-> {}]
            ELSE [reg |-> TRUE, ev |-> mask]]

\* ---------------------------------------------------- IOManager operations
\* The operations work on s = [fc, ep, pending, tasks, tickleBytes, fired,
\* crashed, rt, inline]: the FdContext and kernel registration of the fd
\* operated on and the shared scheduler state; the whole body runs under
\* fd_ctx->mutex.  inline is the set of callbacks the operation has called
\* itself, in the calling thread.
\* rt is the return value (bool results: 1 = true, 0 = false).
\* pending is a size_t: a value n < 0 stands for 2^64 + n.

\* triggerEvent that schedules the continuation and leaves the bit and the
\* context in place
triggerEvent_KeepRegistered(s, event, idle, ub) ==
    LET ctx == getEventContext(s.fc, event)
        task == IF ctx.cb # NoCb THEN ScheduleTask(0, ctx.cb, -1, ctx.cb[2])
                ELSE ScheduleTask(ctx.fiber, NoCb, -1, ctx.reg)
        sch == schedule(s, task, idle)
    IN  IF ctx.scheduler = 0 THEN s
        ELSE [s EXCEPT !.tasks = sch.tasks, !.tickleBytes = sch.tickleBytes,
                       !.fired = sch.fired]

\* FdContext::triggerEvent.  ub chooses the outcome of calling
\* ctx.scheduler->schedule() through a null scheduler pointer.
triggerEvent(s, event, idle, ub) ==
    LET ctx == getEventContext(s.fc, event)
        fc1 == [s.fc EXCEPT !.events = @ \ {event}]
        task == IF ctx.cb # NoCb THEN ScheduleTask(0, ctx.cb, -1, ctx.cb[2])
                ELSE ScheduleTask(ctx.fiber, NoCb, -1, ctx.reg)
        sch == schedule(s, task, idle)
        fc2 == SetEventContext(fc1, event, resetEventContext(ctx))
    IN  IF ctx.scheduler = 0
        THEN IF ub = "crash"
             THEN [s EXCEPT !.fc = fc1, !.crashed = TRUE]
             ELSE [s EXCEPT !.fc = fc2]
        ELSE [s EXCEPT !.fc = fc2, !.tasks = sch.tasks,
                       !.tickleBytes = sch.tickleBytes, !.fired = sch.fired]

\* IOManager::addEvent after the table lookup.  SYLAR_ASSERT is compiled out
\* (SYLAR_ASSERT_ON is false), so an already registered event only logs.
addEvent(s, event, cb, fiber, reg, fail) ==
    LET op == IF s.fc.events # {} THEN "MOD" ELSE "ADD"
        r == epoll_ctl(s.ep, op, s.fc.events \cup {event}, fail)
        old == getEventContext(s.fc, event)
        ctx == IF cb # NoCb
               THEN [old EXCEPT !.scheduler = 1, !.cb = cb]
               ELSE [old EXCEPT !.scheduler = 1, !.fiber = fiber, !.reg = reg]
    IN  IF ~r.ok THEN [s EXCEPT !.rt = -1]
        ELSE [s EXCEPT !.ep = r.ep,
                       !.pending = @ + 1,
                       !.fc = SetEventContext([s.fc EXCEPT !.events = @ \cup {event}],
                                              event, ctx),
                       !.rt = 0]

\* delEvent that goes on after a failed epoll_ctl
delEvent_IgnoreCtl(s, event, fail) ==
    LET new_events == s.fc.events \ {event}
        op == IF new_events # {} THEN "MOD" ELSE "DEL"
        r == epoll_ctl(s.ep, op, new_events, fail)
    IN  IF event \notin s.fc.events THEN [s EXCEPT !.rt = 0]
        ELSE [s EXCEPT !.ep = r.ep,
                       !.pending = @ - 1,
                       !.fc = SetEventContext([s.fc EXCEPT !.events = new_events], event,
                                              resetEventContext(getEventContext(s.fc, event))),
                       !.rt = 1]

\* IOManager::delEvent
delEvent(s, event, fail) ==
    LET new_events == s.fc.events \ {event}
        op == IF new_events # {} THEN "MOD" ELSE "DEL"
        r == epoll_ctl(s.ep, op, new_events, fail)
    IN  IF event \notin s.fc.events THEN [s EXCEPT !.rt = 0]
        ELSE IF ~r.ok THEN [s EXCEPT !.rt = 0]
        ELSE [s EXCEPT !.ep = r.ep,
                       !.pending = @ - 1,
                       !.fc = SetEventContext([s.fc EXCEPT !.events = new_events], event,
                                              resetEventContext(getEventContext(s.fc, event))),
                       !.rt = 1]

\* "fd_ctx->triggerEvent(e); --m_pendingEventCount;" (nothing after a crash)
TriggerAndCount(s, event, idle, ub) ==
    LET s1 == triggerEvent(s, event, idle, ub) IN
    IF s1.crashed THEN s1 ELSE [s1 EXCEPT !.pending = @ - 1]

\* cancelEvent without the test of the mask
cancelEvent_NoMaskTest(s, event, fail, idle, ub) ==
    LET new_events == s.fc.events \ {event}
        op == IF new_events # {} THEN "MOD" ELSE "DEL"
        r == epoll_ctl(s.ep, op, new_events, fail)
    IN  IF ~r.ok THEN [s EXCEPT !.rt = 0]
        ELSE [TriggerAndCount([s EXCEPT !.ep = r.ep], event, idle, ub) EXCEPT !.rt = 1]

\* IOManager::cancelEvent
cancelEvent(s, event, fail, idle, ub) ==
    LET new_events == s.fc.events \ {event}
        op == IF new_events # {} THEN "MOD" ELSE "DEL"
        r == epoll_ctl(s.ep, op, new_events, fail)
    IN  IF event \notin s.fc.events THEN [s EXCEPT !.rt = 0]
        ELSE IF ~r.ok THEN [s EXCEPT !.rt = 0]
        ELSE [TriggerAndCount([s EXCEPT !.ep = r.ep], event, idle, ub) EXCEPT !.rt = 1]

\* cancelAll that fires the read event only
cancelAll_ReadOnly(s, fail, idle, ub) ==
    LET r == epoll_ctl(s.ep, "DEL", {}, fail)
        s0 == [s EXCEPT !.ep = r.ep]
        s1 == IF READ \in s0.fc.events THEN TriggerAndCount(s0, READ, idle, ub) ELSE s0
    IN  IF s.fc.events = {} THEN [s EXCEPT !.rt = 0]
        ELSE IF ~r.ok THEN [s EXCEPT !.rt = 0]
        ELSE [s1 EXCEPT !.rt = 1]

\* IOManager::cancelAll
cancelAll(s, fail, idle, ub) ==
    LET r == epoll_ctl(s.ep, "DEL", {}, fail)
        s0 == [s EXCEPT !.ep = r.ep]
        s1 == IF READ \in s0.fc.events THEN TriggerAndCount(s0, READ, idle, ub) ELSE s0
        s2 == IF ~s1.crashed /\ WRITE \in s1.fc.events
              THEN TriggerAndCount(s1, WRITE, idle, ub) ELSE s1
    IN  IF s.fc.events = {} THEN [s EXCEPT !.rt = 0]
        ELSE IF ~r.ok THEN [s EXCEPT !.rt = 0]
        ELSE [s2 EXCEPT !.rt = 1]

\* One iteration of the ready-event loop of IOManager::idle for an event of
\* a user fd; e.ev is the set of reported bits ("IN", "OUT", "ERR").
idleDispatch(s, e, fail, idle, ub) ==
    LET events1 == IF "ERR" \in e.ev
                   THEN e.ev \cup {b \in {"IN", "OUT"} :
                                     (IF b = "IN" THEN READ ELSE WRITE) \in s.fc.events}
                   ELSE e.ev
        real_events == {ev \in Events : (IF ev = READ THEN "IN" ELSE "OUT") \in events1}
        left_events == s.fc.events \ real_events
        op == IF left_events # {} THEN "MOD" ELSE "DEL"
        r == epoll_ctl(s.ep, op, left_events, fail)
        s0 == [s EXCEPT !.ep = r.ep]
        s1 == IF READ \in real_events THEN TriggerAndCount(s0, READ, idle, ub) ELSE s0
        s2 == IF ~s1.crashed /\ WRITE \in real_events
              THEN TriggerAndCount(s1, WRITE, idle, ub) ELSE s1
    IN  IF s.fc.events \cap real_events = {} THEN s
        ELSE IF ~r.ok THEN s
        ELSE s2

\* --------------------------------------------------------- TimerManager
\* IOManager::contextResize: m_fdContexts.resize(size), which drops the
\* slots from size on when the vector is longer, then a new FdContext for
\* every null slot.  Objects are numbered in the order of their allocation.
RECURSIVE FillSlots(_, _, _)
FillSlots(tab, i, size) ==
    IF i >= size THEN tab
    ELSE IF tab.slot[i] # 0 THEN FillSlots(tab, i + 1, size)
    ELSE FillSlots([tab EXCEPT !.slot[i] = tab.allocs + 1, !.allocs = @ + 1], i + 1, size)

contextResize(tab, size) ==
    FillSlots([tab EXCEPT !.size = size,
                          !.slot = [i \in AllFds |-> IF i < size THEN @[i] ELSE 0]],
              0, size)

\* (size_t)(fd * 1.5)
GrowSize(fd) == (3 * fd) \div 2

\* timer[k] = [next, ms, recurring, cb] are the fields of Timer k; allocated
\* is TRUE once addTimer created it; cancelled and lateRun are history:
\* cancel() returned true / the callback was resumed after that.
\* witness is the object behind the weak_ptr bound into a condition timer's
\* callback ("none": not a condition timer; "alive"; "dropped": the last
\* shared_ptr is gone); onTimer is history: what the last OnTimer call did.
NoTimer == [next |-> 0, ms |-> 0, recurring |-> FALSE, cb |-> NoCb,
            allocated |-> FALSE, cancelled |-> FALSE, lateRun |-> FALSE,
            witness |-> "none", onTimer |-> "none"]

\* Timer::Comparator: by m_next, then by address (the id stands for it)
TimerLess(tm, a, b) ==
    a # b /\ (tm[a].next < tm[b].next \/ (tm[a].next = tm[b].next /\ a < b))

\* *m_timers.begin()
FirstTimer(tm, set) == CHOOSE k \in set : \A j \in set \ {k} : TimerLess(tm, k, j)

RECURSIVE InOrder(_, _)
InOrder(tm, set) ==
    IF set = {} THEN <<>>
    ELSE LET k == FirstTimer(tm, set) IN <<k>> \o InOrder(tm, set \ {k})

\* x < (a - b) in uint64_t arithmetic, for x, a, b below 2^31: when a < b
\* the difference wraps to 2^64 - (b - a), above every such x.
U64LessThanDiff(x, a, b) == IF a >= b THEN x < a - b ELSE TRUE

\* TimerManager::detectClockRollover (its result; it also stores now_ms)
detectClockRollover(now_ms, previousTime) ==
    now_ms < previousTime /\ U64LessThanDiff(now_ms, previousTime, HourMs)

\* TimerManager::getNextTimer (its result; it also clears m_tickled)
getNextTimer_Distance(tm, set, now_ms) ==
    IF set = {} THEN NoTimeout
    ELSE LET next == tm[FirstTimer(tm, set)].next IN
         IF now_ms >= next THEN now_ms - next ELSE next - now_ms

getNextTimer_NoSentinel(tm, set, now_ms) ==
    IF set = {} THEN 0
    ELSE LET next == tm[FirstTimer(tm, set)].next IN
         IF now_ms >= next THEN 0 ELSE next - now_ms

getNextTimer(tm, set, now_ms) ==
    IF set = {} THEN NoTimeout
    ELSE LET next == tm[FirstTimer(tm, set)].next IN
         IF now_ms >= next THEN 0 ELSE next - now_ms

\* TimerManager::listExpiredCb under the write lock, with the now_ms sampled
\* before.  Result: the new set, timers and m_previousTime, and the expired
\* timers in the order their callbacks are appended to cbs.
listExpiredCb(tm, set, previousTime, now_ms) ==
    LET rollover == detectClockRollover(now_ms, previousTime)
        expiredSet == IF rollover THEN set ELSE {k \in set : tm[k].next <= now_ms}
        expired == InOrder(tm, expiredSet)
        tm1 == [k \in DOMAIN tm |->
                   IF k \notin expiredSet THEN tm[k]
                   ELSE IF tm[k].recurring THEN [tm[k] EXCEPT !.next = now_ms + tm[k].ms]
                   ELSE [tm[k] EXCEPT !.cb = NoCb]]
    IN  IF set = {} THEN [set |-> set, tm |-> tm, prev |-> previousTime, expired |-> <<>>,
                          rollover |-> FALSE]
        ELSE IF ~rollover /\ tm[FirstTimer(tm, set)].next > now_ms
             THEN [set |-> set, tm |-> tm, prev |-> now_ms, expired |-> <<>>,
                   rollover |-> FALSE]
        ELSE [set |-> (set \ expiredSet) \cup {k \in expiredSet : tm[k].recurring},
              tm |-> tm1, prev |-> now_ms, expired |-> expired, rollover |-> rollover]

\* What one listExpiredCb call did, for the properties of its result: tm,
\* set, previousTime are the state before the call, r is its result.
\* early: returned although the deadline is after now; exact: the returned
\* timers are those with deadline <= now; ordered: cbs is in (deadline,
\* identity) order; kept: returned timers still in the set that are not
\* recurring timers with a deadline after now.
ExpireRecord(tm, set, previousTime, now_ms, r) ==
    LET returned == {r.expired[i] : i \in 1 .. Len(r.expired)} IN
    [rollover |-> r.rollover,
     behind |-> (set # {} /\ previousTime - now_ms > HourMs),
     early |-> {k \in returned : tm[k].next > now_ms},
     exact |-> (returned = {k \in set : tm[k].next <= now_ms}),
     ordered |-> \A i, j \in 1 .. Len(r.expired) :
                    i < j => \/ tm[r.expired[i]].next < tm[r.expired[j]].next
                             \/ /\ tm[r.expired[i]].next = tm[r.expired[j]].next
                                /\ r.expired[i] < r.expired[j],
     kept |-> {k \in returned :
                 k \in r.set /\ ~(r.tm[k].recurring /\ r.tm[k].next > now_ms)}]

\* Timer::refresh under the write lock, now_ms sampled inside it
refreshTimer_Always(tm, set, k, now_ms) ==
    [rt |-> 1, set |-> set \cup {k}, tm |-> [tm EXCEPT ![k].next = now_ms + tm[k].ms]]

refreshTimer(tm, set, k, now_ms) ==
    IF tm[k].cb = NoCb THEN [rt |-> 0, set |-> set, tm |-> tm]
    ELSE IF k \notin set THEN [rt |-> 0, set |-> set, tm |-> tm]
    ELSE [rt |-> 1, set |-> (set \ {k}) \cup {k},
          tm |-> [tm EXCEPT ![k].next = now_ms + tm[k].ms]]

\* a reset that re-inserts through TimerManager::addTimer(val, lock)
resetTimer_AddTimer(tm, set, tickled, k, ms, from_now, now_ms) ==
    IF ms = tm[k].ms /\ ~from_now
    THEN [rt |-> 1, set |-> set, tm |-> tm, tickled |-> tickled, at_front |-> FALSE]
    ELSE IF tm[k].cb = NoCb \/ k \notin set
    THEN [rt |-> 0, set |-> set, tm |-> tm, tickled |-> tickled, at_front |-> FALSE]
    ELSE LET start_t == IF from_now THEN now_ms ELSE tm[k].next - tm[k].ms
             tm1 == [tm EXCEPT ![k].ms = ms, ![k].next = start_t + ms]
             at_front == FirstTimer(tm1, set) = k /\ ~tickled
         IN  [rt |-> 1, set |-> set, tm |-> tm1, tickled |-> (tickled \/ at_front),
              at_front |-> at_front]

\* Timer::reset: the early return before the lock, then under the write
\* lock erase, m_ms and m_next rewritten, m_timers.insert.  tickled is
\* m_tickled after the call and at_front whether onTimerInsertedAtFront()
\* is called.
resetTimer(tm, set, tickled, k, ms, from_now, now_ms) ==
    IF ms = tm[k].ms /\ ~from_now
    THEN [rt |-> 1, set |-> set, tm |-> tm, tickled |-> tickled, at_front |-> FALSE]
    ELSE IF tm[k].cb = NoCb
    THEN [rt |-> 0, set |-> set, tm |-> tm, tickled |-> tickled, at_front |-> FALSE]
    ELSE IF k \notin set
    THEN [rt |-> 0, set |-> set, tm |-> tm, tickled |-> tickled, at_front |-> FALSE]
    ELSE LET start_t == IF from_now THEN now_ms ELSE tm[k].next - tm[k].ms
         IN  [rt |-> 1, set |-> (set \ {k}) \cup {k},
              tm |-> [tm EXCEPT ![k].ms = ms, ![k].next = start_t + ms],
              tickled |-> tickled, at_front |-> FALSE]

\* a cancel that clears m_cb and leaves the timer in m_timers
cancelTimer_NoErase(tm, set, k) ==
    IF tm[k].cb # NoCb
    THEN [rt |-> 1, set |-> set, tm |-> [tm EXCEPT ![k].cb = NoCb, ![k].cancelled = TRUE]]
    ELSE [rt |-> 0, set |-> set, tm |-> tm]

\* Timer::cancel under the write lock
cancelTimer(tm, set, k) ==
    IF tm[k].cb # NoCb
    THEN [rt |-> 1, set |-> set \ {k}, tm |-> [tm EXCEPT ![k].cb = NoCb, ![k].cancelled = TRUE]]
    ELSE [rt |-> 0, set |-> set, tm |-> tm]

\* addTimer that does not look at m_tickled
addTimer_IgnoreTickled(tm, set, tickled, k, ms, recurring, now_ms) ==
    LET tm1 == [tm EXCEPT ![k] = [NoTimer EXCEPT !.next = now_ms + ms, !.ms = ms,
                                                 !.recurring = recurring,
                                                 !.cb = <<"tm", k>>, !.allocated = TRUE]]
        set1 == set \cup {k}
        at_front == FirstTimer(tm1, set1) = k
    IN  [tm |-> tm1, set |-> set1, tickled |-> TRUE, at_front |-> at_front]

\* Timer::Timer + TimerManager::addTimer(val, lock): the timer inserted and
\* whether onTimerInsertedAtFront() is called
addTimer(tm, set, tickled, k, ms, recurring, now_ms) ==
    LET tm1 == [tm EXCEPT ![k] = [NoTimer EXCEPT !.next = now_ms + ms, !.ms = ms,
                                                 !.recurring = recurring,
                                                 !.cb = <<"tm", k>>, !.allocated = TRUE]]
        set1 == set \cup {k}
        at_front == FirstTimer(tm1, set1) = k /\ ~tickled
    IN  [tm |-> tm1, set |-> set1, tickled |-> (tickled \/ at_front), at_front |-> at_front]

\* OnTimer(weak_cond, cb): tmp = weak_cond.lock(); if(tmp) cb();
\* TRUE iff the user callback is invoked.
OnTimer_Always(witness) == TRUE

OnTimer(witness) == witness = "alive"

\* TimerManager::addConditionTimer: addTimer with OnTimer bound to the weak
\* pointer and the user callback.
addConditionTimer(tm, set, tickled, k, ms, recurring, now_ms) ==
    LET r == addTimer(tm, set, tickled, k, ms, recurring, now_ms)
    IN  [r EXCEPT !.tm = [r.tm EXCEPT ![k].cb = <<"cond", k>>, ![k].witness = "alive"]]

\* A worker runs a queued callback: the timer fields it touches.  A timer
\* callback run after cancel() returned true is recorded in lateRun; a
\* condition timer's callback is OnTimer.
runTimerCb(tm, cb) ==
    IF cb[1] \notin {"tm", "cond"} THEN tm
    ELSE LET k == cb[2]
             tm1 == IF tm[k].cancelled THEN [tm EXCEPT ![k].lateRun = TRUE] ELSE tm
         IN  IF cb[1] = "cond"
             THEN [tm1 EXCEPT ![k].onTimer =
                      IF OnTimer(tm[k].witness)
                      THEN IF tm[k].witness = "alive" THEN "invoked" ELSE "invokedDropped"
                      ELSE "skipped"]
             ELSE tm1

\* ------------------------------------------------------------------ Init
\* Fiber ids: 1..NumThreads are the threads' main fibers (always RUNNING,
\* Fiber::Fiber()), the others are task fibers created by Scheduler::run.
FiberIds == 1 .. (NumThreads + MaxFibers)
TimerIds == 1 .. NumTimers
RegIds == 1 .. MaxRegs
UBOutcomes == {"crash", "continue"}
TimerPeriods == {1, 2}
AllPeriods == {0} \cup TimerPeriods
ResetPeriods == {1, 2}
ClockSteps == {1, HourMs + 1}

NoCur == [task |-> NoTask, fiber |-> 0]
NoAddLocal == [fd |-> -1, ret |-> "none"]
EmptyTable == [size |-> 0, slot |-> [i \in AllFds |-> 0], allocs |-> 0]
\* t_fiber: the fiber Fiber::GetThis() designates on the thread: "main" is
\* t_thread_fiber, "root" is m_rootFiber, "idle" the idle fiber, "task" the
\* fiber of the task being run.
NoIdleLocal == [timeout |-> 0, now |-> 0, ready |-> <<>>, term |-> FALSE,
                t_fiber |-> "main"]
\* Fiber::SetThis
SetThis(loc, t, f) == [loc EXCEPT ![t].t_fiber = f]
\* ------------------------------------------- the timeout of epoll_wait
\* next_timeout is a uint64_t, wider than the integers of the model: it is
\* written as four 16-bit words, the most significant first.
Word == 65536

\* (int)x of a uint64_t x: the low 32 bits read as two's complement
ToInt(x) ==
    IF x[3] >= Word \div 2 THEN (x[3] - Word) * Word + x[4] ELSE x[3] * Word + x[4]

\* uint64_t = int: sign extension
FromInt(v) ==
    IF v >= 0 THEN <<0, 0, v \div Word, v % Word>>
    ELSE <<Word - 1, Word - 1, Word + (v \div Word), v % Word>>

\* IOManager::idle from the test of next_timeout to the fourth argument of
\* epoll_wait: "next_timeout = std::min((int)next_timeout, MAX_TIMEOUT)"
\* unless next_timeout is ~0ull, then "(int)next_timeout"
epollWaitTimeout(next_timeout) ==
    LET as_int == ToInt(next_timeout)
        clipped == IF next_timeout # FromInt(-1)
                   THEN FromInt(IF MAX_TIMEOUT < as_int THEN MAX_TIMEOUT ELSE as_int)
                   ELSE FromInt(MAX_TIMEOUT)
    IN  ToInt(clipped)

\* The uint64_t next_timeout of a distance d on the model's clock, or of
\* the sentinel.  One unit of the clock is 1 ms, or in the runs with timers
\* far ahead 2^16 ms (hist.wait.tick_ms).
NextTimeoutMs(d, tick_ms) ==
    IF d = NoTimeout THEN FromInt(-1)
    ELSE IF tick_ms = 1 THEN FromInt(d)
    ELSE <<0, d \div Word, d % Word, 0>>

\* the values of next_timeout tried: around 0, MAX_TIMEOUT, 2^16, 2^31,
\* 2^32, 2^63 and ~0ull
NextTimeouts ==
    {<<w3, w2, w1, w0>> : w3 \in {0, Word - 1}, w2 \in {0, Word - 1},
                          w1 \in {0, 1, Word \div 2 - 1, Word \div 2, Word - 1},
                          w0 \in {0, 1, MAX_TIMEOUT - 1, MAX_TIMEOUT, MAX_TIMEOUT + 1,
                                  Word - 1}}

\* hist.dtor: the m_state values of the fibers that the last step left
\* unheld (unheld) and of those among them that Fiber::~Fiber freed the
\* stack of (freed); the destructor runs when the last shared_ptr goes.
NoDtor == [unheld |-> {}, freed |-> {}]
NoExpire == [rollover |-> FALSE, behind |-> FALSE, early |-> {}, exact |-> TRUE,
             ordered |-> TRUE, kept |-> {}]
\* hist.sleep: the fiber that called sleep(), the thread it was running on,
\* the deadline of its timer, and what the resumes after that were: how many
\* (2 stands for more than one), whether one came before the deadline or
\* before the fiber's yield had saved its context, and the last thread
NoSleep == [fiber |-> 0, on |-> 0, deadline |-> 0, resumes |-> 0, early |-> FALSE,
            midYield |-> FALSE, resumedOn |-> 0]
\* hist.call: the last direct call of a TimerManager / Timer operation: its
\* arguments, the timers before (tm, set, tickled) and after it (tm1, set1,
\* tickled1) and its return value
NoCall == [op |-> "none", k |-> 0, now |-> 0, rt |-> 0,
           tm |-> [k \in TimerIds |-> NoTimer], set |-> {}, tickled |-> FALSE,
           tm1 |-> [k \in TimerIds |-> NoTimer], set1 |-> {}, tickled1 |-> FALSE]

\* hist.io: the do_io call in progress: the fiber that made it, whether
\* tinfo->cancelled is set, the timer armed for the wait it is in and the
\* number of waits so far, what it returned; and history: whether the
\* callback that set tinfo->cancelled belonged to the timer of an earlier
\* wait (stale) and whether its cancelEvent removed a registration (hit).
NoIo == [fiber |-> 0, cancelled |-> FALSE, timer |-> 0, waits |-> 0, result |-> "none",
         stale |-> FALSE, hit |-> FALSE]

\* hist.front: the calls of onTimerInsertedAtFront since the last
\* getNextTimer: how many addTimer calls chose to make one (decided, with
\* m_tickled set under the lock) and how many were made (issued)
NoFront == [decided |-> 0, issued |-> 0]
Front(h, d, i) == [h EXCEPT !.front = [decided |-> @.decided + d, issued |-> @.issued + i]]
FrontCall(h, at_front) == IF at_front THEN Front(h, 1, 1) ELSE h

\* State after IOManager::IOManager(NumThreads, true): the table is
\* allocated and empty, the spawned workers are at the top of
\* Scheduler::run, the caller thread is back in user code.
\* spawned: the threads Scheduler::start() creates (m_threadCount of them);
\* any other id but the caller's is the id of no thread of the scheduler
InitState(c, next_timeout, tick_ms, spawned) ==
    /\ fdContexts = [fd \in AllFds |-> EmptyFdContext]
    /\ m_fdContexts = contextResize(EmptyTable, NumFds)
    /\ addLocal = [t \in Threads |-> NoAddLocal]
    /\ epollInterest = [fd \in AllFds |-> [reg |-> FALSE, ev |-> {}]]
    /\ pendingEventCount = 0
    /\ tasks = <<>>
    /\ tickleBytes = 0
    /\ activeThreadCount = 0
    /\ idleThreadCount = 0
    /\ stoppingFlag = FALSE
    /\ pc = [t \in Threads |-> IF t = CallerThread THEN "user"
                                ELSE IF t \in spawned THEN "run" ELSE "exit"]
    /\ cur = [t \in Threads |-> NoCur]
    /\ idleLocal = [t \in Threads |-> NoIdleLocal]
    /\ m_timers = {}
    /\ timer = [k \in TimerIds |-> NoTimer]
    /\ m_tickled = FALSE
    /\ clock = c
    /\ m_previousTime = clock
    /\ fiberState = [f \in FiberIds |-> IF f \in Threads THEN "RUNNING" ELSE "NONE"]
    /\ nextId = [reg |-> 0, user |-> 0, timer |-> 0, ticks |-> 0, enq |-> 0]
    /\ crashed = FALSE
    /\ fired = [r \in RegIds |-> 0]
    /\ hist = [ops |-> <<>>, expire |-> NoExpire, call |-> NoCall, sleep |-> NoSleep,
               dtor |-> NoDtor, front |-> NoFront, pick |-> 0, io |-> NoIo,
               wait |-> [next_timeout |-> next_timeout, arg |-> 0, called |-> FALSE,
                         tick_ms |-> tick_ms]]

InitWith(c, next_timeout, tick_ms) ==
    InitState(c, next_timeout, tick_ms, Threads \ {CallerThread})

InitAt(c) == InitWith(c, FromInt(0), 1)

Init == InitAt(0)

\* ------------------------------------------------------- action helpers
IOState(fd) ==
    [fc |-> fdContexts[fd], ep |-> epollInterest[fd], pending |-> pendingEventCount,
     tasks |-> tasks, tickleBytes |-> tickleBytes, fired |-> fired,
     crashed |-> crashed, rt |-> 0, inline |-> {}]

\* Fibers are held by shared_ptr.  The holders outside the fiber are the
\* event contexts, the queued tasks and the callbacks bound by sleep() (in a
\* timer, in the queue or being run).
Referenced(f, fcs, q) ==
    \/ \E fd \in AllFds, e \in Events : getEventContext(fcs[fd], e).fiber = f
    \/ \E i \in 1 .. Len(q) : q[i].fiber = f \/ q[i].cb = <<"wake", f>>
    \/ \E k \in TimerIds : timer[k].cb = <<"wake", f>>
    \/ \E u \in Threads : cur[u].task.cb = <<"wake", f>>

\* Fiber::MainFunc holds a shared_ptr to its own fiber in the local cur, on
\* the fiber's stack, from the first resume until m_state = TERM is written
\* (cur.reset()).  Every fiber of the model is resumed when it is created.
MainFuncCur_None(fs, f) == FALSE

MainFuncCur(fs, f) == fs[f] \in {"RUNNING", "READY"}

\* The fibers that run() has just let go of (task.reset(), cb_fiber.reset())
\* or that lost their last outside holder.
Unheld(fs, fcs, q) ==
    {f \in FiberIds \ Threads : fs[f] \in {"READY", "TERM"} /\ ~Referenced(f, fcs, q)}

Dtor(fs, fcs, q) ==
    [unheld |-> {fs[f] : f \in Unheld(fs, fcs, q)},
     freed |-> {fs[f] : f \in {g \in Unheld(fs, fcs, q) : ~MainFuncCur(fs, g)}}]

\* An unheld fiber is either destroyed (TERM) or, suspended with cur on its
\* stack, can never be resumed nor destroyed again; its id is free for the
\* next fiber in both cases.
Release(fs, fcs, q) ==
    [f \in FiberIds |-> IF f \in Unheld(fs, fcs, q) THEN "NONE" ELSE fs[f]]

CommitFd(fd, s) ==
    /\ fdContexts' = [fdContexts EXCEPT ![fd] = s.fc]
    /\ epollInterest' = [epollInterest EXCEPT ![fd] = s.ep]
    /\ pendingEventCount' = s.pending
    /\ tasks' = s.tasks
    /\ tickleBytes' = s.tickleBytes
    /\ fired' = s.fired
    /\ crashed' = s.crashed
    /\ fiberState' = Release(fiberState, fdContexts', tasks')

Commit(fd, s) == CommitFd(fd, s) /\ UNCHANGED tableVars

\* (int)m_fdContexts.size() > fd
InTable(fd) == fd < m_fdContexts.size

\* history: what an operation saw and left
Snap(s, q) == [fc |-> s.fc, ep |-> s.ep, pending |-> s.pending,
               fired |-> s.fired, enq |-> q]
NoSnap == [fc |-> EmptyFdContext, ep |-> [reg |-> FALSE, ev |-> {}], pending |-> 0,
           fired |-> [r \in RegIds |-> 0], enq |-> 0]
NoOp == [op |-> "none", rt |-> 0, same |-> TRUE, ctlFailed |-> FALSE, fd |-> -1,
         event |-> 0, pre |-> NoSnap, afterAdd |-> FALSE, prior |-> NoSnap,
         absent |-> "no", inline |-> {}]
LastOp == IF hist.ops = <<>> THEN NoOp ELSE hist.ops[1]
\* The record of an operation: its result, whether it left everything as it
\* was (same; then the arguments are not kept), whether its epoll_ctl call
\* failed, the state it found (pre) and, for a delEvent that directly
\* follows the addEvent of the same fd and event, the state that one found.
\* absent: a delEvent, cancelEvent or cancelAll found the fd outside the table
\* ("fd") or the event (for cancelAll: every event) not in the mask ("event").
OpRecord(op, fd, event, ctlFailed, s0, s1) ==
    LET same == [s1 EXCEPT !.rt = 0] = s0
        absent == IF op \notin {"delEvent", "cancelEvent", "cancelAll"} THEN "no"
                  ELSE IF ~InTable(fd) THEN "fd"
                  ELSE IF op = "cancelAll" /\ s0.fc.events = {} THEN "event"
                  ELSE IF op # "cancelAll" /\ event \notin s0.fc.events THEN "event"
                  ELSE "no"
        afterAdd == /\ op = "delEvent" /\ ~same
                    /\ LastOp.op = "addEvent" /\ ~LastOp.same
                    /\ LastOp.fd = fd /\ LastOp.event = event
    IN  [op |-> op, rt |-> s1.rt, same |-> same, ctlFailed |-> ctlFailed,
         fd |-> IF same THEN -1 ELSE fd,
         event |-> IF same THEN 0 ELSE event,
         pre |-> IF same THEN NoSnap ELSE Snap(s0, nextId.enq),
         afterAdd |-> afterAdd,
         prior |-> IF afterAdd THEN LastOp.pre ELSE NoSnap,
         absent |-> absent, inline |-> s1.inline]
Log(op, fd, event, ctlFailed, s0, s1) ==
    /\ hist' = [hist EXCEPT !.ops = <<OpRecord(op, fd, event, ctlFailed, s0, s1)>>,
                            !.dtor = Dtor(fiberState, fdContexts', tasks')]
    /\ nextId' = [nextId EXCEPT !.enq = @ + (Len(s1.tasks) - Len(s0.tasks)),
                                !.reg = IF op = "addEvent" THEN @ + 1 ELSE @]

\* The outcomes to consider when triggerEvent may run on one of the events:
\* both where a null scheduler can be dereferenced, else a single one.
UBChoices(fc, events) ==
    IF \E e \in events : getEventContext(fc, e).scheduler = 0
    THEN UBOutcomes ELSE {"crash"}

\* A thread can call the API from user code or from inside a task.
CanCall(t) == ~crashed /\ pc[t] \in {"user", "task"}
\* Fiber::GetThis() on thread t
CurFiber(t) == IF pc[t] = "user" THEN t ELSE cur[t].fiber

\* ------------------------------------------------------- IOManager API
AddEvent(t, fd, event, withCb, fail) ==
    /\ CanCall(t)
    /\ InTable(fd)
    /\ nextId.reg < MaxRegs
    /\ LET reg == nextId.reg + 1
           s0 == IOState(fd)
           s1 == addEvent(s0, event, IF withCb THEN <<"ev", reg>> ELSE NoCb,
                          CurFiber(t), reg, fail)
       IN  Commit(fd, s1) /\ Log("addEvent", fd, event, fail, s0, s1)
    /\ UNCHANGED <<activeThreadCount, idleThreadCount, stoppingFlag, threadVars,
                   timerVars>>

DelEvent(t, fd, event, fail) ==
    /\ CanCall(t)
    /\ LET s0 == IOState(fd)
           s1 == IF InTable(fd) THEN delEvent(s0, event, fail) ELSE [s0 EXCEPT !.rt = 0]
       IN  Commit(fd, s1) /\ Log("delEvent", fd, event, fail /\ event \in s0.fc.events, s0, s1)
    /\ UNCHANGED <<activeThreadCount, idleThreadCount, stoppingFlag, threadVars,
                   timerVars>>

CancelEvent(t, fd, event, fail) ==
    /\ CanCall(t)
    /\ \E ub \in UBChoices(fdContexts[fd], {event}) :
         LET s0 == IOState(fd)
             s1 == IF InTable(fd) THEN cancelEvent(s0, event, fail, idleThreadCount, ub)
                   ELSE [s0 EXCEPT !.rt = 0]
         IN  Commit(fd, s1) /\ Log("cancelEvent", fd, event, fail /\ event \in s0.fc.events, s0, s1)
    /\ UNCHANGED <<activeThreadCount, idleThreadCount, stoppingFlag, threadVars,
                   timerVars>>

CancelAll(t, fd, fail) ==
    /\ CanCall(t)
    /\ \E ub \in UBChoices(fdContexts[fd], fdContexts[fd].events) :
         LET s0 == IOState(fd)
             s1 == IF InTable(fd) THEN cancelAll(s0, fail, idleThreadCount, ub)
                   ELSE [s0 EXCEPT !.rt = 0]
         IN  Commit(fd, s1) /\ Log("cancelAll", fd, 0, fail /\ s0.fc.events # {}, s0, s1)
    /\ UNCHANGED <<activeThreadCount, idleThreadCount, stoppingFlag, threadVars,
                   timerVars>>

\* The model keeps the contents of a FdContext under its fd, which is right
\* as long as no context holding a registration has been dropped from the
\* vector: a table that lost one is not grown again.
LostContext ==
    \E fd \in AllFds : ~InTable(fd) /\ (fdContexts[fd].events # {} \/ epollInterest[fd].reg)

\* addEvent, else branch of the size test made under the read lock: the
\* read lock is released and the thread queues for the write lock
AddEventLookup(t, fd) ==
    /\ CanCall(t)
    /\ ~InTable(fd)
    /\ ~LostContext
    /\ nextId.reg < MaxRegs
    /\ addLocal' = [addLocal EXCEPT ![t] = [fd |-> fd, ret |-> pc[t]]]
    /\ pc' = [pc EXCEPT ![t] = "add_lock"]
    /\ UNCHANGED <<fdContexts, epollInterest, pendingEventCount, m_fdContexts, schedVars,
                   cur, idleLocal, timerVars, fiberState, histVars>>

\* under the write lock: contextResize(fd * 1.5); fd_ctx = m_fdContexts[fd];
\* then the rest of addEvent under fd_ctx->mutex
AddEventResize(t, event, withCb, fail) ==
    /\ ~crashed
    /\ pc[t] = "add_lock"
    /\ nextId.reg < MaxRegs
    /\ LET fd == addLocal[t].fd
           reg == nextId.reg + 1
           s0 == IOState(fd)
           s1 == addEvent(s0, event, IF withCb THEN <<"ev", reg>> ELSE NoCb,
                          IF addLocal[t].ret = "user" THEN t ELSE cur[t].fiber, reg, fail)
       IN  /\ m_fdContexts' = contextResize(m_fdContexts, GrowSize(fd))
           /\ CommitFd(fd, s1)
           /\ Log("addEvent", fd, event, fail, s0, s1)
    /\ pc' = [pc EXCEPT ![t] = addLocal[t].ret]
    /\ addLocal' = [addLocal EXCEPT ![t] = NoAddLocal]
    /\ UNCHANGED <<activeThreadCount, idleThreadCount, stoppingFlag, cur, idleLocal,
                   timerVars>>

\* ------------------------------------------------------- Scheduler API
\* Scheduler::schedule(cb, thread) called by user code or a task
UserSchedule(t, hint) ==
    /\ CanCall(t)
    /\ nextId.user < MaxUserTasks
    /\ LET st == [tasks |-> tasks, tickleBytes |-> tickleBytes, fired |-> fired]
           r == schedule(st, ScheduleTask(0, <<"user", nextId.user + 1>>, hint, 0),
                         idleThreadCount)
       IN  /\ tasks' = r.tasks
           /\ tickleBytes' = r.tickleBytes
    /\ nextId' = [nextId EXCEPT !.user = @ + 1]
    /\ hist' = [hist EXCEPT !.ops = <<>>]
    /\ UNCHANGED <<ioVars, activeThreadCount, idleThreadCount, stoppingFlag, threadVars,
                   timerVars, fiberState, crashed, fired>>

\* a stopping() without the m_tasks.empty() test
SchedulerStopping_IgnoreQueue == stoppingFlag /\ activeThreadCount = 0

\* Scheduler::stopping()
SchedulerStopping == stoppingFlag /\ tasks = <<>> /\ activeThreadCount = 0

\* Scheduler::stop() up to m_rootFiber->resume(): the first stopping() is
\* false (m_stopping is) but has called getNextTimer(); then m_stopping is
\* set, tickle() runs m_threadCount + 1 times and the root fiber enters run().
Stop(t) ==
    /\ ~crashed
    /\ t = CallerThread
    /\ pc[t] = "user"
    /\ m_tickled' = FALSE
    /\ stoppingFlag' = TRUE
    /\ tickleBytes' = TickleTimes(NumThreads, tickleBytes, idleThreadCount)
    /\ idleLocal' = SetThis(idleLocal, t, "root")
    /\ pc' = [pc EXCEPT ![t] = "run"]
    /\ hist' = [hist EXCEPT !.front = NoFront]
    /\ UNCHANGED <<ioVars, tasks, activeThreadCount, idleThreadCount, cur,
                   m_timers, timer, m_previousTime, clock, fiberState,
                   nextId, crashed, fired>>

\* Scheduler::stop() after the root fiber returned: join the workers
StopJoin(t) ==
    /\ ~crashed
    /\ pc[t] = "join"
    /\ \A u \in Threads \ {t} : pc[u] = "exit"
    /\ pc' = [pc EXCEPT ![t] = "stopped"]
    /\ UNCHANGED <<ioVars, schedVars, cur, idleLocal, timerVars, fiberState, histVars>>

\* ---------------------------------------------------------------- Fiber
\* Fiber::resume: the state test is a SYLAR_ASSERT, which compiles to
\* nothing, so the fiber is marked RUNNING and switched to whatever its state.
resume(fs, f) == [fs EXCEPT ![f] = "RUNNING"]

\* Fiber::yield: READY unless the entry function has already returned.
yield(fs, f) == IF fs[f] # "TERM" THEN [fs EXCEPT ![f] = "READY"] ELSE fs

\* Fiber::MainFunc after m_cb() returned: TERM, then the automatic yield.
MainFunc(fs, f) == yield([fs EXCEPT ![f] = "TERM"], f)

\* ------------------------------------------------------- Scheduler::run
Eligible_AnyThread(t, task) ==
    ~(task.fiber # 0 /\ fiberState[task.fiber] = "RUNNING")

Eligible(t, task) ==
    /\ task.thread = -1 \/ task.thread = t
    /\ ~(task.fiber # 0 /\ fiberState[task.fiber] = "RUNNING")

\* an erase that takes the head of the queue whatever the iterator
RemoveAt_Head(q, i) == Tail(q)

\* m_tasks.erase(it)
RemoveAt(q, i) == [j \in 1 .. (Len(q) - 1) |-> IF j < i THEN q[j] ELSE q[j + 1]]

\* history of the resumes of the fiber that called sleep()
SleepResume(h, t, task, racing) ==
    IF task.fiber # 0 /\ task.fiber = h.fiber
    THEN [h EXCEPT !.resumes = IF @ < 2 THEN @ + 1 ELSE @,
                   !.early = @ \/ clock < h.deadline,
                   !.midYield = @ \/ racing,
                   !.resumedOn = t]
    ELSE h

\* One pass of the run loop up to the resume of a task, or with no task to
\* the end of the loop or to the point before ++m_idleThreadCount.
\* hist.pick is history: how many tasks the scan passed over before the one
\* it took.
\* A fiber found READY while its yield() on another thread has not reached
\* swapcontext yet is resumed from the context saved before: two threads
\* then run on one stack, which is undefined.
RunPick(t) ==
    /\ ~crashed
    /\ pc[t] = "run"
    /\ LET found == \E i \in 1 .. Len(tasks) : Eligible(t, tasks[i])
           idx == IF found
                  THEN CHOOSE i \in 1 .. Len(tasks) :
                         Eligible(t, tasks[i]) /\ \A j \in 1 .. (i - 1) : ~Eligible(t, tasks[j])
                  ELSE Len(tasks) + 1
           tickle_me == \/ \E j \in 1 .. (idx - 1) :
                              tasks[j].thread # -1 /\ tasks[j].thread # t
                        \/ (found /\ idx < Len(tasks))
           task == tasks[idx]
           free == {f \in FiberIds : fiberState[f] = "NONE"}
           fib == IF task.fiber # 0 THEN task.fiber
                  ELSE CHOOSE f \in free : \A g \in free : f <= g
           racing == /\ task.fiber # 0
                     /\ \E u \in Threads \ {t} :
                           pc[u] = "sleep_swap" /\ cur[u].fiber = task.fiber
       IN  /\ tickleBytes' = IF tickle_me THEN tickle(tickleBytes, idleThreadCount)
                             ELSE tickleBytes
           /\ IF found
              THEN /\ task.fiber # 0 \/ free # {}
                   /\ tasks' = RemoveAt(tasks, idx)
                   /\ activeThreadCount' = activeThreadCount + 1
                   /\ cur' = [cur EXCEPT ![t] = [task |-> task, fiber |-> fib]]
                   /\ \E ub \in (IF racing THEN UBOutcomes ELSE {"continue"}) :
                         crashed' = (fiberState[fib] = "TERM" \/ ub = "crash")
                   /\ hist' = [hist EXCEPT !.sleep = SleepResume(@, t, task, racing),
                                           !.dtor = NoDtor, !.pick = idx - 1]
                   /\ fiberState' = resume(fiberState, fib)
                   /\ timer' = runTimerCb(timer, task.cb)
                   /\ idleLocal' = SetThis(idleLocal, t, "task")
                   /\ pc' = [pc EXCEPT ![t] = "task"]
                   /\ UNCHANGED idleThreadCount
              ELSE /\ IF idleLocal[t].term
                      THEN /\ pc' = [pc EXCEPT ![t] = IF t = CallerThread THEN "join"
                                                      ELSE "exit"]
                           /\ idleLocal' = IF t = CallerThread
                                           THEN SetThis(idleLocal, t, "main")
                                           ELSE idleLocal
                      ELSE /\ pc' = [pc EXCEPT ![t] = "idle_enter"]
                           /\ UNCHANGED idleLocal
                   /\ hist' = [hist EXCEPT !.dtor = NoDtor, !.pick = 0]
                   /\ UNCHANGED <<tasks, activeThreadCount, idleThreadCount, cur,
                                  crashed, fiberState, timer>>
    /\ UNCHANGED <<ioVars, stoppingFlag, m_timers, m_tickled, m_previousTime, clock,
                   nextId, fired>>

\* the idle fiber resumed without ++m_idleThreadCount
RunIdleResume_NoCount(t) ==
    /\ ~crashed
    /\ pc[t] = "idle_enter"
    /\ idleLocal' = SetThis(idleLocal, t, "idle")
    /\ pc' = [pc EXCEPT ![t] = "idle_timer"]
    /\ UNCHANGED <<ioVars, schedVars, cur, timerVars, fiberState, histVars>>

\* run() found no task and the idle fiber has not ended:
\* ++m_idleThreadCount; idle_fiber->resume(), outside m_mutex
RunIdleResume(t) ==
    /\ ~crashed
    /\ pc[t] = "idle_enter"
    /\ idleThreadCount' = idleThreadCount + 1
    /\ idleLocal' = SetThis(idleLocal, t, "idle")
    /\ pc' = [pc EXCEPT ![t] = "idle_timer"]
    /\ UNCHANGED <<ioVars, tasks, tickleBytes, activeThreadCount, stoppingFlag, cur,
                   timerVars, fiberState, histVars>>

\* The resumed task yields (READY) or its entry returns (TERM); back in
\* run(): --m_activeThreadCount.
TaskEnd(t, state) ==
    /\ ~crashed
    /\ pc[t] = "task"
    /\ cur[t].task.cb[1] \notin {"wake", "io"}
    /\ cur[t].fiber # hist.io.fiber \/ hist.io.result # "none"
    /\ LET fs == IF state = "TERM" THEN MainFunc(fiberState, cur[t].fiber)
                 ELSE yield(fiberState, cur[t].fiber)
       IN  /\ fiberState' = Release(fs, fdContexts, tasks)
           /\ hist' = [hist EXCEPT !.dtor = Dtor(fs, fdContexts, tasks)]
    /\ activeThreadCount' = activeThreadCount - 1
    /\ cur' = [cur EXCEPT ![t] = NoCur]
    /\ idleLocal' = SetThis(idleLocal, t, "main")
    /\ pc' = [pc EXCEPT ![t] = "run"]
    /\ UNCHANGED <<ioVars, tasks, tickleBytes, idleThreadCount, stoppingFlag,
                   m_timers, timer, m_tickled, m_previousTime, clock,
                   nextId, crashed, fired>>

\* ---------------------------------------------------------- hook: sleep
\* sleep(): iom->addTimer(ms, bind(&IOManager::schedule, iom, fiber, -1)),
\* called by the fiber of a running task
SleepAddTimer(t, ms) ==
    /\ ~crashed
    /\ pc[t] = "task"
    /\ cur[t].task.cb[1] # "wake"
    /\ nextId.timer < MaxTimers
    /\ LET k == nextId.timer + 1
           f == cur[t].fiber
           r0 == addTimer(timer, m_timers, m_tickled, k, ms, FALSE, clock)
           r == [r0 EXCEPT !.tm = [r0.tm EXCEPT ![k].cb = <<"wake", f>>]]
       IN  /\ timer' = r.tm
           /\ m_timers' = r.set
           /\ m_tickled' = r.tickled
           /\ tickleBytes' = IF r.at_front THEN tickle(tickleBytes, idleThreadCount)
                             ELSE tickleBytes
           /\ hist' = [FrontCall(hist, r.at_front) EXCEPT
                          !.sleep = [NoSleep EXCEPT !.fiber = f, !.on = t,
                                                             !.deadline = clock + ms]]
    /\ nextId' = [nextId EXCEPT !.timer = @ + 1]
    /\ pc' = [pc EXCEPT ![t] = "sleep_yield"]
    /\ UNCHANGED <<ioVars, tasks, activeThreadCount, idleThreadCount, stoppingFlag,
                   cur, idleLocal, m_previousTime, clock, fiberState, crashed, fired>>

\* sleep(): Fiber::GetThis()->yield(), first half: m_state = READY is
\* written with no lock held
SleepYieldState(t) ==
    /\ ~crashed
    /\ pc[t] = "sleep_yield"
    /\ fiberState' = yield(fiberState, cur[t].fiber)
    /\ idleLocal' = SetThis(idleLocal, t, "main")
    /\ pc' = [pc EXCEPT ![t] = "sleep_swap"]
    /\ UNCHANGED <<ioVars, schedVars, cur, timerVars, histVars>>

\* second half: swapcontext saves the fiber's context and run() goes on
\* behind task.fiber->resume() / cb_fiber->resume()
SleepYieldSwap(t) ==
    /\ ~crashed
    /\ pc[t] = "sleep_swap"
    /\ activeThreadCount' = activeThreadCount - 1
    /\ cur' = [cur EXCEPT ![t] = NoCur]
    /\ pc' = [pc EXCEPT ![t] = "run"]
    /\ UNCHANGED <<ioVars, tasks, tickleBytes, idleThreadCount, stoppingFlag, idleLocal,
                   timerVars, fiberState, histVars>>

\* The callback bound by sleep() runs in a callback fiber: schedule(fiber,
\* -1); it returns and run() goes on.
WakeRun(t) ==
    /\ ~crashed
    /\ pc[t] = "task"
    /\ cur[t].task.cb[1] = "wake"
    /\ LET st == [tasks |-> tasks, tickleBytes |-> tickleBytes, fired |-> fired]
           r == schedule(st, ScheduleTask(cur[t].task.cb[2], NoCb, -1, 0), idleThreadCount)
       IN  /\ tasks' = r.tasks
           /\ tickleBytes' = r.tickleBytes
           /\ fiberState' = Release(MainFunc(fiberState, cur[t].fiber), fdContexts, tasks')
           /\ hist' = [hist EXCEPT !.dtor = Dtor(MainFunc(fiberState, cur[t].fiber),
                                                 fdContexts, tasks')]
    /\ activeThreadCount' = activeThreadCount - 1
    /\ cur' = [cur EXCEPT ![t] = NoCur]
    /\ idleLocal' = SetThis(idleLocal, t, "main")
    /\ pc' = [pc EXCEPT ![t] = "run"]
    /\ UNCHANGED <<ioVars, idleThreadCount, stoppingFlag, timerVars,
                   nextId, crashed, fired>>

\* ------------------------------------------------------ TimerManager API
AddTimer(t, ms, recurring) ==
    /\ CanCall(t)
    /\ nextId.timer < MaxTimers
    /\ LET k == nextId.timer + 1
           r == addTimer(timer, m_timers, m_tickled, k, ms, recurring, clock)
       IN  /\ timer' = r.tm
           /\ m_timers' = r.set
           /\ m_tickled' = r.tickled
           /\ tickleBytes' = IF r.at_front THEN tickle(tickleBytes, idleThreadCount)
                             ELSE tickleBytes
           /\ hist' = FrontCall(hist, r.at_front)
    /\ nextId' = [nextId EXCEPT !.timer = @ + 1]
    /\ UNCHANGED <<ioVars, tasks, activeThreadCount, idleThreadCount, stoppingFlag,
                   threadVars, m_previousTime, clock, fiberState, crashed, fired>>

\* addConditionTimer(ms, cb, weak_cond, recurring); the caller holds the
\* only shared_ptr to the witness.
AddConditionTimer(t, ms, recurring) ==
    /\ CanCall(t)
    /\ nextId.timer < MaxTimers
    /\ LET k == nextId.timer + 1
           r == addConditionTimer(timer, m_timers, m_tickled, k, ms, recurring, clock)
       IN  /\ timer' = r.tm
           /\ m_timers' = r.set
           /\ m_tickled' = r.tickled
           /\ tickleBytes' = IF r.at_front THEN tickle(tickleBytes, idleThreadCount)
                             ELSE tickleBytes
           /\ hist' = FrontCall(hist, r.at_front)
    /\ nextId' = [nextId EXCEPT !.timer = @ + 1]
    /\ UNCHANGED <<ioVars, tasks, activeThreadCount, idleThreadCount, stoppingFlag,
                   threadVars, m_previousTime, clock, fiberState, crashed, fired>>

\* the caller releases its shared_ptr to the witness of condition timer k
DropWitness(t, k) ==
    /\ CanCall(t)
    /\ timer[k].witness = "alive"
    /\ timer' = [timer EXCEPT ![k].witness = "dropped"]
    /\ UNCHANGED <<ioVars, schedVars, threadVars, m_timers, m_tickled, m_previousTime,
                   clock, fiberState, histVars>>

CancelTimer(t, k) ==
    /\ CanCall(t)
    /\ timer[k].allocated
    /\ LET r == cancelTimer(timer, m_timers, k)
       IN  /\ timer' = r.tm
           /\ m_timers' = r.set
    /\ UNCHANGED <<ioVars, schedVars, threadVars, m_tickled, m_previousTime, clock,
                   fiberState, histVars>>

\* ------------------------------------- TimerManager called on one thread
\* The caller thread drives the timer operations directly, one call after
\* the other, and the result of each call is kept in hist.call.
CallRecord(op, k, now_ms, rt, tm1, set1, tickled1) ==
    [op |-> op, k |-> k, now |-> now_ms, rt |-> rt,
     tm |-> timer, set |-> m_timers, tickled |-> m_tickled,
     tm1 |-> tm1, set1 |-> set1, tickled1 |-> tickled1]

OpAddTimer(ms, recurring) ==
    /\ CanCall(CallerThread)
    /\ nextId.timer < NumTimers
    /\ LET k == nextId.timer + 1
           r == addTimer(timer, m_timers, m_tickled, k, ms, recurring, clock)
       IN  /\ timer' = r.tm
           /\ m_timers' = r.set
           /\ m_tickled' = r.tickled
           /\ tickleBytes' = IF r.at_front THEN tickle(tickleBytes, idleThreadCount)
                             ELSE tickleBytes
           /\ hist' = [FrontCall(hist, r.at_front) EXCEPT !.call =
                          CallRecord("addTimer", k, clock, 0, r.tm, r.set, r.tickled)]
    /\ nextId' = [nextId EXCEPT !.timer = @ + 1]
    /\ UNCHANGED <<ioVars, tasks, activeThreadCount, idleThreadCount, stoppingFlag,
                   threadVars, m_previousTime, clock, fiberState, crashed, fired>>

OpCancel(k) ==
    /\ CanCall(CallerThread)
    /\ timer[k].allocated
    /\ LET r == cancelTimer(timer, m_timers, k)
       IN  /\ timer' = r.tm
           /\ m_timers' = r.set
           /\ hist' = [hist EXCEPT !.call =
                          CallRecord("cancel", k, clock, r.rt, r.tm, r.set, m_tickled)]
    /\ UNCHANGED <<ioVars, schedVars, threadVars, m_tickled, m_previousTime, clock,
                   fiberState, nextId, crashed, fired>>

OpRefresh(k) ==
    /\ CanCall(CallerThread)
    /\ timer[k].allocated
    /\ LET r == refreshTimer(timer, m_timers, k, clock)
       IN  /\ timer' = r.tm
           /\ m_timers' = r.set
           /\ hist' = [hist EXCEPT !.call =
                          CallRecord("refresh", k, clock, r.rt, r.tm, r.set, m_tickled)]
    /\ UNCHANGED <<ioVars, schedVars, threadVars, m_tickled, m_previousTime, clock,
                   fiberState, nextId, crashed, fired>>

OpReset(k, ms, from_now) ==
    /\ CanCall(CallerThread)
    /\ timer[k].allocated
    /\ LET r == resetTimer(timer, m_timers, m_tickled, k, ms, from_now, clock)
       IN  /\ timer' = r.tm
           /\ m_timers' = r.set
           /\ m_tickled' = r.tickled
           /\ tickleBytes' = IF r.at_front THEN tickle(tickleBytes, idleThreadCount)
                             ELSE tickleBytes
           /\ hist' = [FrontCall(hist, r.at_front) EXCEPT !.call =
                          CallRecord("reset", k, clock, r.rt, r.tm, r.set, r.tickled)]
    /\ UNCHANGED <<ioVars, tasks, activeThreadCount, idleThreadCount, stoppingFlag,
                   threadVars, m_previousTime, clock, fiberState, nextId, crashed, fired>>

OpGetNextTimer ==
    /\ CanCall(CallerThread)
    /\ m_tickled' = FALSE
    /\ hist' = [hist EXCEPT !.front = NoFront, !.call =
                   CallRecord("getNextTimer", 0, clock,
                              getNextTimer(timer, m_timers, clock), timer, m_timers, FALSE)]
    /\ UNCHANGED <<ioVars, schedVars, threadVars, m_timers, timer, m_previousTime, clock,
                   fiberState, nextId, crashed, fired>>

\* listExpiredCb(cbs); the caller runs the callbacks itself
OpListExpiredCb ==
    /\ CanCall(CallerThread)
    /\ LET r == listExpiredCb(timer, m_timers, m_previousTime, clock)
       IN  /\ timer' = r.tm
           /\ m_timers' = r.set
           /\ m_previousTime' = r.prev
           /\ hist' = [hist EXCEPT
                          !.call = CallRecord("listExpiredCb", 0, clock, Len(r.expired),
                                              r.tm, r.set, m_tickled),
                          !.expire = ExpireRecord(timer, m_timers, m_previousTime, clock, r)]
    /\ UNCHANGED <<ioVars, schedVars, threadVars, m_tickled, clock, fiberState,
                   nextId, crashed, fired>>

\* the monotonic clock advances
Tick(d) ==
    /\ ~crashed
    /\ nextId.ticks < MaxTicks
    /\ clock' = clock + d
    /\ nextId' = [nextId EXCEPT !.ticks = @ + 1]
    /\ UNCHANGED <<ioVars, schedVars, threadVars, m_timers, timer, m_tickled,
                   m_previousTime, fiberState, crashed, fired, hist>>

\* ------------------------------------------------------- IOManager::idle
\* an idle fiber that goes on to Scheduler::stopping() whatever
\* m_pendingEventCount is
IdleReadPending_Ignore(t) ==
    /\ ~crashed
    /\ pc[t] = "idle_pending"
    /\ pc' = [pc EXCEPT ![t] = "idle_base"]
    /\ UNCHANGED <<ioVars, schedVars, cur, idleLocal, timerVars, fiberState, histVars>>

\* IOManager::stopping(timeout) evaluates, in this order and without a
\* common lock, getNextTimer(), m_pendingEventCount and Scheduler::stopping().
IdleGetNextTimer(t) ==
    /\ ~crashed
    /\ pc[t] = "idle_timer"
    /\ LET timeout == getNextTimer(timer, m_timers, clock) IN
       /\ idleLocal' = [idleLocal EXCEPT ![t].timeout = timeout]
       /\ pc' = [pc EXCEPT ![t] = IF timeout = NoTimeout THEN "idle_pending"
                                  ELSE "epoll_wait"]
    /\ m_tickled' = FALSE
    /\ hist' = [hist EXCEPT !.front = NoFront]
    /\ UNCHANGED <<ioVars, schedVars, cur, m_timers, timer, m_previousTime, clock,
                   fiberState, nextId, crashed, fired>>

IdleReadPending(t) ==
    /\ ~crashed
    /\ pc[t] = "idle_pending"
    /\ pc' = [pc EXCEPT ![t] = IF pendingEventCount = 0 THEN "idle_base" ELSE "epoll_wait"]
    /\ UNCHANGED <<ioVars, schedVars, cur, idleLocal, timerVars, fiberState, histVars>>

\* Scheduler::stopping() true: idle() returns, the idle fiber is TERM and
\* run() continues after idle_fiber->resume() with --m_idleThreadCount.
IdleBaseStopping(t) ==
    /\ ~crashed
    /\ pc[t] = "idle_base"
    /\ IF SchedulerStopping
       THEN /\ idleLocal' = [idleLocal EXCEPT ![t] = [NoIdleLocal EXCEPT !.term = TRUE]]
            /\ idleThreadCount' = idleThreadCount - 1
            /\ pc' = [pc EXCEPT ![t] = "run"]
       ELSE /\ pc' = [pc EXCEPT ![t] = "epoll_wait"]
            /\ UNCHANGED <<idleLocal, idleThreadCount>>
    /\ UNCHANGED <<ioVars, tasks, tickleBytes, activeThreadCount, stoppingFlag, cur,
                   timerVars, fiberState, histVars>>

\* What epoll_wait can report for a registered fd: a non-empty set of the
\* requested bits and EPOLLERR/EPOLLHUP (always reported).
Reportable(fd) ==
    {b \in {"IN", "OUT", "ERR"} :
        \/ b = "ERR"
        \/ (b = "IN" /\ READ \in epollInterest[fd].ev)
        \/ (b = "OUT" /\ WRITE \in epollInterest[fd].ev)}

\* EPOLLERR/EPOLLHUP is taken to be reported on its own
ReportedSets(fd) ==
    {b \in (SUBSET Reportable(fd)) \ {{}} : "ERR" \in b => b = {"ERR"}}

RECURSIVE ReadyLists(_)
ReadyLists(fds) ==
    IF fds = {} THEN {<<>>}
    ELSE LET fd == CHOOSE x \in fds : \A y \in fds : x <= y
             rest == ReadyLists(fds \ {fd})
         IN  rest \cup {<<[fd |-> fd, ev |-> b]>> \o r :
                           b \in ReportedSets(fd), r \in rest}

\* epoll_wait returns: events ready, or the timeout passed to it elapsed; a
\* negative timeout never elapses.  The kernel measures the timeout on
\* another clock than GetElapsedMS() (CLOCK_MONOTONIC_RAW), so the wait can
\* end at any reading of the latter.  The wake-up pipe comes first if it
\* holds bytes.
EpollWait(t) ==
    /\ ~crashed
    /\ pc[t] = "epoll_wait"
    /\ \E r \in ReadyLists({fd \in Fds : epollInterest[fd].reg}) :
       \E pipe \in {b \in BOOLEAN : b => tickleBytes > 0} :
          /\ \/ r # <<>>
             \/ pipe
             \/ epollWaitTimeout(NextTimeoutMs(idleLocal[t].timeout,
                                               hist.wait.tick_ms)) >= 0
          /\ idleLocal' = [idleLocal EXCEPT ![t].ready =
                           (IF pipe THEN <<[fd |-> TickleFd, ev |-> {"IN"}]>> ELSE <<>>) \o r,
                                            ![t].timeout = 0]
    /\ pc' = [pc EXCEPT ![t] = "expired_now"]
    /\ UNCHANGED <<ioVars, schedVars, cur, timerVars, fiberState, histVars>>

\* listExpiredCb: now_ms = GetElapsedMS(), then the emptiness test under
\* the read lock
IdleSampleNow(t) ==
    /\ ~crashed
    /\ pc[t] = "expired_now"
    /\ IF m_timers = {}
       THEN /\ pc' = [pc EXCEPT ![t] = "dispatch"]
            /\ UNCHANGED idleLocal
       ELSE /\ pc' = [pc EXCEPT ![t] = "expired_lock"]
            /\ idleLocal' = [idleLocal EXCEPT ![t].now = clock]
    /\ UNCHANGED <<ioVars, schedVars, cur, timerVars, fiberState, histVars>>

RECURSIVE ScheduleAll(_, _, _)
ScheduleAll(st, cbs, idle) ==
    IF cbs = <<>> THEN st
    ELSE ScheduleAll(schedule(st, ScheduleTask(0, Head(cbs), -1, 0), idle), Tail(cbs), idle)

\* listExpiredCb under the write lock, then schedule(cb) for every callback
IdleCollect(t) ==
    /\ ~crashed
    /\ pc[t] = "expired_lock"
    /\ LET now_ms == idleLocal[t].now
           r == listExpiredCb(timer, m_timers, m_previousTime, now_ms)
           cbs == [i \in 1 .. Len(r.expired) |-> timer[r.expired[i]].cb]
           st == ScheduleAll([tasks |-> tasks, tickleBytes |-> tickleBytes, fired |-> fired],
                             cbs, idleThreadCount)
       IN  /\ timer' = r.tm
           /\ m_timers' = r.set
           /\ m_previousTime' = r.prev
           /\ tasks' = st.tasks
           /\ tickleBytes' = st.tickleBytes
           /\ hist' = [hist EXCEPT !.ops = <<>>, !.expire =
                          ExpireRecord(timer, m_timers, m_previousTime, now_ms, r)]
    /\ idleLocal' = [idleLocal EXCEPT ![t].now = 0]
    /\ pc' = [pc EXCEPT ![t] = "dispatch"]
    /\ UNCHANGED <<ioVars, activeThreadCount, idleThreadCount, stoppingFlag, cur,
                   m_tickled, clock, fiberState, nextId, crashed, fired>>

\* the next ready event of the batch, under fd_ctx->mutex
IdleDispatch(t, fail) ==
    /\ ~crashed
    /\ pc[t] = "dispatch"
    /\ idleLocal[t].ready # <<>>
    /\ LET e == Head(idleLocal[t].ready) IN
       IF e.fd = TickleFd
       THEN /\ tickleBytes' = 0
            /\ UNCHANGED <<ioVars, tasks, fiberState, nextId, crashed, fired, hist>>
       ELSE \E ub \in UBChoices(fdContexts[e.fd], Events) :
              LET s0 == IOState(e.fd)
                  s1 == idleDispatch(s0, e, fail, idleThreadCount, ub)
              IN  Commit(e.fd, s1) /\ Log("idle", e.fd, 0, FALSE, s0, s1)
    /\ idleLocal' = [idleLocal EXCEPT ![t].ready = Tail(@)]
    /\ UNCHANGED <<activeThreadCount, idleThreadCount, stoppingFlag, pc, cur,
                   timerVars>>

\* the batch is done: the idle fiber yields, run() does --m_idleThreadCount
IdleYield(t) ==
    /\ ~crashed
    /\ pc[t] = "dispatch"
    /\ idleLocal[t].ready = <<>>
    /\ idleThreadCount' = idleThreadCount - 1
    /\ idleLocal' = SetThis(idleLocal, t, "main")
    /\ pc' = [pc EXCEPT ![t] = "run"]
    /\ UNCHANGED <<ioVars, tasks, tickleBytes, activeThreadCount, stoppingFlag, cur,
                   timerVars, fiberState, histVars>>

\* ------------------------------------------------------- specifications
IOApi ==
    \E t \in Threads, fd \in Fds, fail \in BOOLEAN :
        \/ \E event \in Events, withCb \in BOOLEAN : AddEvent(t, fd, event, withCb, fail)
        \/ \E event \in Events : DelEvent(t, fd, event, fail)
        \/ \E event \in Events : CancelEvent(t, fd, event, fail)
        \/ CancelAll(t, fd, fail)

TimerApi ==
    \E t \in Threads :
        \/ \E ms \in TimerPeriods, recurring \in BOOLEAN : AddTimer(t, ms, recurring)
        \/ \E k \in TimerIds : CancelTimer(t, k)

RunLoop ==
    \E t \in Threads :
        \/ RunPick(t)
        \/ RunIdleResume(t)
        \/ \E state \in {"READY", "TERM"} : TaskEnd(t, state)

IdleLoop ==
    \E t \in Threads :
        \/ IdleGetNextTimer(t)
        \/ IdleReadPending(t)
        \/ IdleBaseStopping(t)
        \/ EpollWait(t)
        \/ IdleSampleNow(t)
        \/ \E fail \in BOOLEAN : IdleDispatch(t, fail)
        \/ IdleYield(t)

StopApi == \E t \in Threads : Stop(t) \/ StopJoin(t)

TimerLoop == \E t \in Threads : IdleCollect(t)

Clock == \E d \in ClockSteps : Tick(d)

\* the event table under concurrent API calls and readiness dispatch
NextIO == IOApi \/ RunLoop \/ IdleLoop
SpecIO == Init /\ [][NextIO]_vars

\* condition timers under concurrent expiry, witness release and cancel
CondApi ==
    \E t \in Threads :
        \/ \E ms \in TimerPeriods, recurring \in BOOLEAN : AddConditionTimer(t, ms, recurring)
        \/ \E k \in TimerIds : DropWitness(t, k)
        \/ \E k \in TimerIds : CancelTimer(t, k)

NextCond == CondApi \/ Clock \/ RunLoop \/ IdleLoop \/ TimerLoop \/ StopApi
SpecCond == Init /\ [][NextCond]_vars

\* the timer operations as pure functions of the timer set and the clock
TimerOps ==
    \/ \E ms \in AllPeriods, recurring \in BOOLEAN : OpAddTimer(ms, recurring)
    \/ \E k \in TimerIds : OpCancel(k)
    \/ \E k \in TimerIds : OpRefresh(k)
    \/ OpGetNextTimer
    \/ OpListExpiredCb

NextTimerOps == TimerOps \/ Clock
SpecTimerOps == Init /\ [][NextTimerOps]_vars

\* fibers that sleep: a scheduled callback calls sleep() and is woken by the
\* timer's callback
SleepApi ==
    \E t \in Threads :
        \/ UserSchedule(t, -1)
        \/ \E ms \in TimerPeriods : SleepAddTimer(t, ms)
        \/ SleepYieldState(t)
        \/ SleepYieldSwap(t)
        \/ WakeRun(t)

NextSleep == SleepApi \/ Clock \/ RunLoop \/ IdleLoop \/ TimerLoop \/ StopApi
SpecSleep == Init /\ [][NextSleep]_vars

\* the FdContext table under addEvent calls for fds beyond it, and the
\* removing operations on every fd
TableApi ==
    \E t \in Threads :
        \/ \E fd \in AllFds : AddEventLookup(t, fd)
        \/ \E event \in Events, withCb, fail \in BOOLEAN : AddEventResize(t, event, withCb, fail)
        \/ \E fd \in AllFds, event \in Events : AddEvent(t, fd, event, TRUE, FALSE)
        \/ \E fd \in AllFds, event \in Events : DelEvent(t, fd, event, FALSE)
        \/ \E fd \in AllFds, event \in Events : CancelEvent(t, fd, event, FALSE)
        \/ \E fd \in AllFds : CancelAll(t, fd, FALSE)

NextTable == TableApi \/ (\E t \in Threads : UserSchedule(t, -1)) \/ RunLoop
SpecTable == Init /\ [][NextTable]_vars

SchedApi == \E t \in Threads, hint \in {-1} \cup Threads : UserSchedule(t, hint)

\* tasks and timers under concurrent API calls, two idle fibers and stop()
Next == SchedApi \/ TimerApi \/ Clock \/ RunLoop \/ IdleLoop \/ TimerLoop \/ StopApi
Spec == Init /\ [][Next]_vars

\* tasks scheduled for the spawned worker or for any thread, with a timer
\* far ahead, every thread of the scheduler taking steps again and again
FarPeriods == {40000}

FairApi ==
    \E t \in Threads :
        \/ \E hint \in {-1} \cup (Threads \ {CallerThread}) : UserSchedule(t, hint)
        \/ \E ms \in FarPeriods : AddTimer(t, ms, FALSE)

ThreadStep(t) ==
    \/ RunPick(t)
    \/ RunIdleResume(t)
    \/ \E state \in {"READY", "TERM"} : TaskEnd(t, state)
    \/ IdleGetNextTimer(t)
    \/ IdleReadPending(t)
    \/ IdleBaseStopping(t)
    \/ EpollWait(t)
    \/ IdleSampleNow(t)
    \/ IdleCollect(t)
    \/ \E fail \in BOOLEAN : IdleDispatch(t, fail)
    \/ IdleYield(t)

NextFair == FairApi \/ Clock \/ (\E t \in Threads : ThreadStep(t))
SpecFair ==
    /\ \E tick_ms \in {1, Word} : InitWith(0, FromInt(0), tick_ms)
    /\ [][NextFair]_vars
    /\ \A t \in Threads : WF_vars(ThreadStep(t))

\* stop() under the same fairness, with tasks that add and cancel a timer
\* far ahead; stop() itself goes on once the root fiber is back
StopFairApi ==
    \E t \in Threads :
        \/ \E hint \in {-1} \cup (Threads \ {CallerThread}) : UserSchedule(t, hint)
        \/ \E ms \in FarPeriods : AddTimer(t, ms, FALSE)
        \/ \E k \in TimerIds : CancelTimer(t, k)
        \/ Stop(t)

NextStop == StopFairApi \/ (\E t \in Threads : ThreadStep(t) \/ StopJoin(t))
SpecStop ==
    /\ \E tick_ms \in {1, Word} : InitWith(0, FromInt(0), tick_ms)
    /\ [][NextStop]_vars
    /\ \A t \in Threads : WF_vars(ThreadStep(t) \/ StopJoin(t))

\* the idle fiber reaches epoll_wait with a given next_timeout:
\* hist.wait keeps the value and the timeout argument of the call
IdleEpollWait ==
    /\ ~hist.wait.called
    /\ hist' = [hist EXCEPT !.wait.arg = epollWaitTimeout(hist.wait.next_timeout),
                            !.wait.called = TRUE]
    /\ UNCHANGED <<ioVars, schedVars, threadVars, timerVars, fiberState, nextId,
                   crashed, fired>>

SpecTimeout ==
    (\E next_timeout \in NextTimeouts : InitWith(0, next_timeout, 1)) /\ [][IdleEpollWait]_vars

\* ------------------------------------------------------------- claims
\* IOManager::stopping() as the spec states it, evaluated in one state
Drained ==
    /\ stoppingFlag /\ tasks = <<>> /\ activeThreadCount = 0
    /\ pendingEventCount = 0
    /\ getNextTimer(timer, m_timers, clock) = NoTimeout

\* C1: an idle fiber terminates only in a state where the stop flag is set,
\* the task queue is empty, no thread is active, pending_event_count is 0
\* and next_timeout is the sentinel; stop() returns only in such a state.
C1_StopsOnlyWhenDrained ==
    [][/\ \A t \in Threads : (~idleLocal[t].term /\ idleLocal'[t].term) => Drained
       /\ (pc[CallerThread] # "stopped" /\ pc'[CallerThread] = "stopped") => Drained]_vars

\* C3: a timer whose cancel() succeeded before its callback was invoked
\* never has that callback invoked, even when listExpiredCb had already
\* selected it.
C3_CancelledNeverRuns == \A k \in TimerIds : ~timer[k].lateRun

\* C4: listExpiredCb returns a timer only if its deadline <= now, unless the
\* observed now is behind the previously observed now by more than one hour;
\* it treats all timers as expired exactly in that case.
C4_NoEarlyFire ==
    /\ hist.expire.rollover <=> hist.expire.behind
    /\ ~hist.expire.behind => hist.expire.early = {}

RECURSIVE SumMasks(_)
SumMasks(fds) ==
    IF fds = {} THEN 0
    ELSE LET fd == CHOOSE x \in fds : TRUE IN
         Cardinality(fdContexts[fd].events) + SumMasks(fds \ {fd})

\* C5: pending_event_count equals the sum over all fd-contexts of the number
\* of event bits in the registered mask.
C5_PendingEqualsMaskSum == pendingEventCount = SumMasks(Fds)

HasCb(ctx) == ctx.cb # NoCb
HasFiber(ctx) == ctx.fiber # 0

\* C6: a registered event has exactly one of callback and fiber and is in the
\* kernel registration of the fd; an unregistered event has an empty context.
C6_ContextMatchesMask ==
    \A fd \in Fds, e \in Events :
        LET ctx == getEventContext(fdContexts[fd], e) IN
        IF e \in fdContexts[fd].events
        THEN /\ HasCb(ctx) # HasFiber(ctx)
             /\ epollInterest[fd].reg /\ e \in epollInterest[fd].ev
        ELSE ctx.scheduler = 0 /\ ~HasCb(ctx) /\ ~HasFiber(ctx)

\* C7: add_event on an event already in the mask returns an error and
\* changes nothing.
C7_DuplicateAddRejected ==
    (LastOp.op = "addEvent" /\ ~LastOp.same /\ LastOp.event \in LastOp.pre.fc.events)
        => (LastOp.rt = -1 /\ LastOp.same)

ApiOps == {"addEvent", "delEvent", "cancelEvent", "cancelAll"}
NowSnap(fd) == Snap(IOState(fd), nextId.enq)

\* C8: when epoll_ctl fails inside add_event, del_event, cancel_event or
\* cancel_all, the call returns failure (-1 for add_event, false for the
\* others), the state it found is unchanged and no task is enqueued.
C8_CtlFailureChangesNothing ==
    (LastOp.op \in ApiOps /\ LastOp.ctlFailed)
        => /\ LastOp.rt = (IF LastOp.op = "addEvent" THEN -1 ELSE 0)
           /\ LastOp.same

\* an epoll_ctl failure has been met by a cancel on a registered event
C8_Witness ==
    /\ LastOp.op \in {"cancelEvent", "cancelAll"} /\ LastOp.ctlFailed
    /\ pendingEventCount > 0

\* C9: add_event(fd, e) on an event that is not registered, directly followed
\* by del_event(fd, e), both succeeding, leaves the fd-context (mask and both
\* event contexts), the kernel registration and the pending count as they
\* were before the add, and enqueues no task.
C9_AddThenDelRestores ==
    (/\ LastOp.op = "delEvent" /\ LastOp.afterAdd /\ LastOp.rt = 1
     /\ LastOp.event \notin LastOp.prior.fc.events)
        => NowSnap(LastOp.fd) = LastOp.prior

\* the round trip has happened on an fd whose other event stays registered
C9_Witness ==
    /\ LastOp.op = "delEvent" /\ LastOp.afterAdd /\ LastOp.rt = 1
    /\ LastOp.event \notin LastOp.prior.fc.events
    /\ LastOp.prior.fc.events # {}

\* the registration whose continuation triggerEvent schedules
RegOf(ctx) == IF HasCb(ctx) THEN ctx.cb[2] ELSE ctx.reg

\* C10: a cancel_all(fd) that succeeds on a non-empty mask leaves the mask
\* empty, enqueues one task per event that was registered, one for each of
\* them, and lowers the pending count by the number of events registered.
C10_CancelAllFiresEach ==
    (LastOp.op = "cancelAll" /\ LastOp.rt = 1)
        => LET pre == LastOp.pre
               now == NowSnap(LastOp.fd)
               n == Cardinality(pre.fc.events)
           IN  /\ pre.fc.events # {}
               /\ now.fc.events = {}
               /\ now.enq = pre.enq + n
               /\ now.pending = pre.pending - n
               /\ \A e \in pre.fc.events :
                      /\ getEventContext(now.fc, e) = EmptyEventContext
                      /\ now.fired[RegOf(getEventContext(pre.fc, e))]
                            = pre.fired[RegOf(getEventContext(pre.fc, e))] + 1

\* cancel_all has fired both events of an fd
C10_Witness ==
    /\ LastOp.op = "cancelAll" /\ LastOp.rt = 1
    /\ LastOp.pre.fc.events = Events

\* C2: a registration is fired at most once, whichever of readiness
\* dispatch, cancel_event and cancel_all comes first; an operation that
\* finds the bit cleared enqueues nothing, and del_event never fires.
C2_OneShot ==
    /\ \A r \in RegIds : fired[r] <= 1
    /\ (LastOp.op \in {"cancelEvent", "cancelAll", "idle"} /\ ~LastOp.same)
          => nextId.enq - LastOp.pre.enq
                = Cardinality(LastOp.pre.fc.events \ fdContexts[LastOp.fd].events)
    /\ (LastOp.op = "delEvent" /\ ~LastOp.same) => nextId.enq = LastOp.pre.enq

\* a registration has fired and a later cancel found its bit cleared
C2_Witness ==
    /\ \E r \in RegIds : fired[r] = 1
    /\ LastOp.op \in {"cancelEvent", "cancelAll", "idle"} /\ LastOp.same
    /\ pendingEventCount = 0 /\ ~crashed

\* C11: a task scheduled with a thread hint h # -1 is taken from the queue and
\* executed only by the worker whose id is h.
C11_HintedTaskRunsOnItsThread ==
    \A t \in Threads : pc[t] = "task" => cur[t].task.thread \in {-1, t}

\* A task hinted to worker 2 is running on worker 2 while the caller thread,
\* already inside its own run loop, has left it alone.
C11_Witness ==
    /\ pc[2] = "task"
    /\ cur[2].task.thread = 2
    /\ pc[CallerThread] \notin {"user", "task"}

\* The fibers of thread t whose m_state is RUNNING: the thread's main fiber
\* (set RUNNING by Fiber::Fiber() and never written again), the task fiber
\* that run() has resumed, and the idle fiber while run() has resumed it.
IdlePcs == {"idle_timer", "idle_pending", "idle_base", "epoll_wait",
            "expired_now", "expired_lock", "dispatch"}

RunningOn(t) ==
    {<<"main", t>> : x \in {y \in {t} : fiberState[y] = "RUNNING"}}
      \cup {<<"task", cur[t].fiber>> :
               x \in {y \in {t} : pc[y] = "task" /\ fiberState[cur[y].fiber] = "RUNNING"}}
      \cup {<<"idle", t>> : x \in {y \in {t} : pc[y] \in IdlePcs}}

\* C13: every fiber's state is READY, RUNNING or TERM and at most one fiber
\* per thread is RUNNING, the thread's main fiber, its idle fiber and the task
\* fibers all counted.
C13_AtMostOneRunningPerThread ==
    /\ \A f \in FiberIds : fiberState[f] \in {"NONE", "READY", "RUNNING", "TERM"}
    /\ \A t \in Threads : Cardinality(RunningOn(t)) <= 1

\* C14: a fiber's state changes only READY -> RUNNING, RUNNING -> READY,
\* RUNNING -> TERM and TERM -> READY; in particular resume leaves a TERM or
\* RUNNING fiber as it is.  (NONE stands for "no such object": construction
\* and destruction are not state changes of a fiber.)
FiberTransitions ==
    {<<"READY", "RUNNING">>, <<"RUNNING", "READY">>, <<"RUNNING", "TERM">>,
     <<"TERM", "READY">>}

C14_FiberTransitions ==
    [][\A f \in FiberIds :
          \/ fiberState'[f] = fiberState[f]
          \/ fiberState[f] = "NONE"
          \/ fiberState'[f] = "NONE"
          \/ <<fiberState[f], fiberState'[f]>> \in FiberTransitions]_vars

\* C15: a condition timer's user callback is invoked only if the witness is
\* still alive at the moment OnTimer runs; once the witness was dropped
\* before that, the callback is not invoked.
C15_ConditionTimerNeedsWitness ==
    \A k \in TimerIds : timer[k].onTimer # "invokedDropped"

\* The expired callback of a condition timer whose witness was dropped has
\* been run by a worker, which did not invoke the user callback.
C15_Witness ==
    \E k \in TimerIds : timer[k].witness = "dropped" /\ timer[k].onTimer = "skipped"

\* C16: after listExpiredCb no timer whose callback was returned is still in
\* the set, unless it is recurring and its new deadline is strictly after
\* now, whatever its period (0 included).
C16_ReturnedTimersLeaveOrMoveAhead == hist.expire.kept = {}

\* C17: one listExpiredCb call removes exactly the timers with deadline <=
\* now and appends their callbacks in non-decreasing deadline order, ties
\* broken by identity.
C17_ExactlyDueTimersInOrder == hist.expire.exact /\ hist.expire.ordered

\* C18: refresh() on a live timer with period P sets its deadline to now + P,
\* leaves every other field and every other timer alone, keeps it in the set
\* and returns true; on a cancelled or fired one-shot timer it returns false
\* and changes nothing.
C18_Refresh ==
    LET c == hist.call
        live == c.k \in c.set
    IN  c.op = "refresh" =>
          IF live
          THEN /\ c.rt = 1
               /\ c.tm1[c.k] = [c.tm[c.k] EXCEPT !.next = c.now + c.tm[c.k].ms]
               /\ \A j \in TimerIds \ {c.k} : c.tm1[j] = c.tm[j]
               /\ c.set1 = c.set
          ELSE /\ c.rt = 0
               /\ c.tm1 = c.tm
               /\ c.set1 = c.set

\* refresh() has moved a live timer's deadline, and refresh() on a cancelled
\* timer has returned false.
C18_Witness ==
    LET c == hist.call IN
    /\ c.op = "refresh"
    /\ \/ c.rt = 1 /\ c.tm1[c.k].next > c.tm[c.k].next /\ Cardinality(c.set) = 2
       \/ c.rt = 0 /\ c.tm[c.k].cancelled

\* C19: getNextTimer returns the sentinel when the set is empty, 0 when the
\* earliest deadline is <= now, else the earliest deadline minus now; every
\* call clears m_tickled.
C19_NextTimeout ==
    LET c == hist.call
        due == \E k \in c.set : c.tm[k].next <= c.now
    IN  c.op = "getNextTimer" =>
          /\ c.set = {} => c.rt = NoTimeout
          /\ c.set # {} /\ due => c.rt = 0
          /\ c.set # {} /\ ~due =>
                \E k \in c.set : /\ c.rt = c.tm[k].next - c.now
                                  /\ \A j \in c.set : c.tm[j].next >= c.tm[k].next
          /\ ~c.tickled1

\* getNextTimer found two pending timers with different deadlines, none due,
\* while m_tickled was set.
C19_Witness ==
    LET c == hist.call IN
    /\ c.op = "getNextTimer"
    /\ c.tickled
    /\ c.rt > 0
    /\ \E j, k \in c.set : c.tm[j].next # c.tm[k].next

\* C12: a fiber never migrates: every resume after its first one happens on
\* the thread of the first one.  (The fiber that called sleep() was running
\* on hist.sleep.on.)
C12_NoMigration ==
    hist.sleep.resumes > 0 => hist.sleep.resumedOn = hist.sleep.on

\* C20: a fiber that adds a timer rescheduling itself and then yields is
\* resumed at most once, not before the timer's deadline, and only from the
\* context its yield saved, also when the timer expires and the fiber is
\* enqueued before the yield has completed.
C20_SleepResumedOnceAfterDeadline ==
    /\ hist.sleep.resumes <= 1
    /\ ~hist.sleep.early
    /\ ~hist.sleep.midYield

\* C21: the FdContext table never shrinks and every FdContext once allocated
\* stays at its index, whatever the interleaving of add_event calls.
C21_TableOnlyGrows ==
    [][/\ m_fdContexts'.size >= m_fdContexts.size
       /\ \A i \in AllFds : m_fdContexts.slot[i] # 0 =>
                               m_fdContexts'.slot[i] = m_fdContexts.slot[i]]_vars

\* C22: del_event, cancel_event and cancel_all on an fd outside the table or
\* on an event that is not in the fd's mask return false and leave the mask,
\* the event contexts, the pending count, the epoll registration and the
\* task queue as they were.
C22_AbsentTargetIsNoOp ==
    (LastOp.op \in {"delEvent", "cancelEvent", "cancelAll"} /\ LastOp.absent # "no")
        => LastOp.rt = 0 /\ LastOp.same

\* A removing operation has met an fd beyond the table while events were
\* pending on other fds.
C22_Witness ==
    /\ LastOp.op \in {"delEvent", "cancelEvent", "cancelAll"}
    /\ LastOp.absent = "fd"
    /\ pendingEventCount > 0

\* C23: next_timeout never increases from one state to the next, except by a
\* collect_expired call or an add_timer at the front; a cancel or a refresh
\* in between does not make it increase.  (NoTimeout is the largest value.)
C23_NextTimeoutNonIncreasing ==
    [][LET before == getNextTimer(timer, m_timers, clock)
           after == getNextTimer(timer', m_timers', clock')
           atFront == /\ \E ms \in AllPeriods, recurring \in BOOLEAN : OpAddTimer(ms, recurring)
                      /\ FirstTimer(timer', m_timers') = nextId'.timer
       IN  ~(OpListExpiredCb \/ atFront)
             => (before = NoTimeout \/ (after # NoTimeout /\ after <= before))]_vars

\* C23 as the code has it: next_timeout never increases while time advances
\* and timers are added behind the front; besides collect_expired, a cancel
\* or a refresh of a timer can make it increase.
C23_NonIncreasingWhileTimePasses ==
    [][LET before == getNextTimer(timer, m_timers, clock)
           after == getNextTimer(timer', m_timers', clock')
       IN  (Clock \/ OpGetNextTimer
              \/ \E ms \in AllPeriods, recurring \in BOOLEAN : OpAddTimer(ms, recurring))
             => (before = NoTimeout \/ (after # NoTimeout /\ after <= before))]_vars

\* getNextTimer returned a positive timeout, time has advanced since and the
\* timeout is now smaller.
C23_Witness ==
    /\ hist.call.op = "getNextTimer"
    /\ hist.call.rt > 0
    /\ clock > hist.call.now
    /\ m_timers = hist.call.set /\ timer = hist.call.tm
    /\ getNextTimer(timer, m_timers, clock) < hist.call.rt

\* C24: on every thread Fiber::GetThis() designates the fiber whose context
\* is executing: the thread's main fiber in user code, the scheduling fiber
\* in run() (m_rootFiber on the caller thread, the main fiber on a worker),
\* the idle fiber in idle() and the task's fiber in a task, also after a
\* task or the idle fiber yielded.  (The two halves of one yield() call are
\* left out.)
C24_CurrentIsExecuting ==
    LET at(t) == IF pc[t] = "add_lock" THEN addLocal[t].ret ELSE pc[t]
        executing(t) ==
            CASE at(t) \in {"user", "join", "stopped", "exit"} -> "main"
              [] at(t) \in {"run", "idle_enter"} -> IF t = CallerThread THEN "root" ELSE "main"
              [] at(t) \in {"task", "sleep_yield"} -> "task"
              [] OTHER -> "idle"
    IN  \A t \in Threads :
            pc[t] # "sleep_swap" => idleLocal[t].t_fiber = executing(t)

C26_NoFiberOnTwoThreads ==
    \A t, u \in Threads :
        (t # u /\ cur[t].fiber # 0 /\ pc[t] \in {"task", "sleep_yield", "sleep_swap"}
               /\ pc[u] \in {"task", "sleep_yield", "sleep_swap"})
            => cur[u].fiber # cur[t].fiber

\* C27: when the idle loop handles a ready event of an fd and fires, the
\* events it calls triggerEvent for all have their bit in the fd's mask as
\* it is under the fd-context lock, whatever other threads cancelled or
\* deleted since epoll_wait returned, and pending_event_count does not go
\* below zero.
C27_IdleFiresWithinMask ==
    [][\A t \in Threads :
          (/\ pc[t] = "dispatch"
           /\ idleLocal[t].ready # <<>>
           /\ idleLocal'[t] # idleLocal[t]
           /\ Head(idleLocal[t].ready).fd # TickleFd)
          => LET e == Head(idleLocal[t].ready)
                 mask == fdContexts[e.fd].events
                 reported == {ev \in Events : (IF ev = READ THEN "IN" ELSE "OUT") \in e.ev}
                 fires == fdContexts'[e.fd] # fdContexts[e.fd] \/ (crashed' /\ ~crashed)
             IN  fires => (reported \subseteq mask /\ pendingEventCount' >= 0)]_vars

\* C28: the timeout the idle fiber passes to epoll_wait is
\* min(next_timeout, 5000): next_timeout when that is below 5000, else 5000,
\* and so within 0 .. 5000, for every 64-bit next_timeout.
C28_EpollTimeoutIsMin ==
    hist.wait.called =>
        LET x == hist.wait.next_timeout
            small == x[1] = 0 /\ x[2] = 0 /\ x[3] = 0 /\ x[4] < MAX_TIMEOUT
        IN  /\ hist.wait.arg = (IF small THEN x[4] ELSE MAX_TIMEOUT)
            /\ hist.wait.arg \in 0 .. MAX_TIMEOUT

\* C29: a task enqueued with no thread hint or with the id of the spawned
\* worker is eventually run, every thread of the scheduler taking steps
\* again and again and epoll_wait returning when its timeout elapses, also
\* when schedule()'s tickle was skipped.
C29_TaskEventuallyRuns ==
    (\E i \in 1 .. Len(tasks) : tasks[i].cb[1] = "user")
        ~> (\E t \in Threads : pc[t] = "task" /\ cur[t].task.cb[1] = "user")

\* C30: once stop() was called, if from some point on no task is queued or
\* running, no event is pending and no timer is left, then every thread's
\* idle fiber ends, every run loop is left and stop() returns, whether or
\* not the tickles of stop() wrote to the pipe.
C30_StopReturns ==
    (<>[](/\ stoppingFlag
          /\ tasks = <<>> /\ activeThreadCount = 0
          /\ pendingEventCount = 0
          /\ m_timers = {}))
        => <>(/\ pc[CallerThread] = "stopped"
              /\ \A t \in Threads : idleLocal[t].term
              /\ \A t \in Threads \ {CallerThread} : pc[t] = "exit")

\* ------------------------------------------------------------------ C31
\* The repository holds a second IOManager (src/iomanager.cc) whose
\* addEvent, delEvent, cancelEvent and cancelAll are the ones above, and
\* whose FdContext::triggerEvent calls a callback itself instead of handing
\* it to the scheduler; a fiber is scheduled as above.
triggerEventDirect(s, event, idle, ub) ==
    LET ctx == getEventContext(s.fc, event)
        fc1 == [s.fc EXCEPT !.events = @ \ {event}]
        sch == schedule(s, ScheduleTask(ctx.fiber, NoCb, -1, ctx.reg), idle)
        fc2 == SetEventContext(fc1, event, resetEventContext(ctx))
    IN  IF ctx.cb # NoCb
        THEN [s EXCEPT !.fc = fc2, !.inline = @ \cup {ctx.cb}]
        ELSE IF ctx.scheduler = 0
        THEN IF ub = "crash"
             THEN [s EXCEPT !.fc = fc1, !.crashed = TRUE]
             ELSE [s EXCEPT !.fc = fc2]
        ELSE [s EXCEPT !.fc = fc2, !.tasks = sch.tasks,
                       !.tickleBytes = sch.tickleBytes, !.fired = sch.fired]

\* IOManager::cancelEvent of src/iomanager.cc
cancelEventDirect(s, event, fail, idle, ub) ==
    LET new_events == s.fc.events \ {event}
        op == IF new_events # {} THEN "MOD" ELSE "DEL"
        r == epoll_ctl(s.ep, op, new_events, fail)
        s1 == triggerEventDirect([s EXCEPT !.ep = r.ep], event, idle, ub)
    IN  IF event \notin s.fc.events THEN [s EXCEPT !.rt = 0]
        ELSE IF ~r.ok THEN [s EXCEPT !.rt = 0]
        ELSE IF s1.crashed THEN [s1 EXCEPT !.rt = 1]
        ELSE [s1 EXCEPT !.pending = @ - 1, !.rt = 1]

CancelEventDirect(t, fd, event, fail) ==
    /\ CanCall(t)
    /\ \E ub \in UBChoices(fdContexts[fd], {event}) :
         LET s0 == IOState(fd)
             s1 == IF InTable(fd) THEN cancelEventDirect(s0, event, fail, idleThreadCount, ub)
                   ELSE [s0 EXCEPT !.rt = 0]
         IN  Commit(fd, s1) /\ Log("cancelEvent", fd, event, fail /\ event \in s0.fc.events, s0, s1)
    /\ UNCHANGED <<activeThreadCount, idleThreadCount, stoppingFlag, threadVars,
                   timerVars>>

\* the event table of src/iomanager.cc under its calls and the run loops
NextTrigger ==
    \/ \E t \in Threads, fd \in Fds, event \in Events, fail \in BOOLEAN :
          \/ \E withCb \in BOOLEAN : AddEvent(t, fd, event, withCb, fail)
          \/ DelEvent(t, fd, event, fail)
          \/ CancelEventDirect(t, fd, event, fail)
    \/ (\E t \in Threads : UserSchedule(t, -1))
    \/ RunLoop
SpecTrigger == Init /\ [][NextTrigger]_vars

\* C31: a trigger never calls the user callback in the triggering thread:
\* after a cancel_event that succeeded, no callback has been called by the
\* operation itself, the continuation of the event it removed (the callback
\* if the context held one, else the captured fiber) has been enqueued, and
\* the EventContext is reset.
C31_TriggerEnqueuesCallback ==
    (LastOp.op = "cancelEvent" /\ LastOp.rt = 1)
        => LET ctx == getEventContext(LastOp.pre.fc, LastOp.event) IN
           /\ LastOp.inline = {}
           /\ fired[RegOf(ctx)] > LastOp.pre.fired[RegOf(ctx)]
           /\ getEventContext(fdContexts[LastOp.fd], LastOp.event) = EmptyEventContext

\* ------------------------------------------------------------------ C32
\* TimerManager::addTimer(ms, cb, recurring) up to lock.unlock(): the timer
\* is created and inserted and at_front is computed under the write lock.
\* With at_front false the call is over.
AddTimerInsert(t, ms, recurring) ==
    /\ CanCall(t)
    /\ nextId.timer < NumTimers
    /\ LET k == nextId.timer + 1
           r == addTimer(timer, m_timers, m_tickled, k, ms, recurring, clock)
           n == IF r.at_front THEN 1 ELSE 0
       IN  /\ timer' = r.tm
           /\ m_timers' = r.set
           /\ m_tickled' = r.tickled
           /\ hist' = [Front(hist, n, 0) EXCEPT !.call =
                          CallRecord("addTimer", k, clock, n, r.tm, r.set, r.tickled)]
           /\ pc' = IF r.at_front THEN [pc EXCEPT ![t] = "timer_front"] ELSE pc
           /\ addLocal' = IF r.at_front THEN [addLocal EXCEPT ![t].ret = pc[t]]
                          ELSE addLocal
    /\ nextId' = [nextId EXCEPT !.timer = @ + 1]
    /\ UNCHANGED <<fdContexts, epollInterest, pendingEventCount, m_fdContexts, schedVars,
                   cur, idleLocal, m_previousTime, clock, fiberState, crashed, fired>>

\* addTimer after lock.unlock(): if(at_front) onTimerInsertedAtFront(),
\* which is IOManager::tickle()
AddTimerFront(t) ==
    /\ ~crashed
    /\ pc[t] = "timer_front"
    /\ tickleBytes' = tickle(tickleBytes, idleThreadCount)
    /\ hist' = Front(hist, 0, 1)
    /\ pc' = [pc EXCEPT ![t] = addLocal[t].ret]
    /\ addLocal' = [addLocal EXCEPT ![t] = NoAddLocal]
    /\ UNCHANGED <<fdContexts, epollInterest, pendingEventCount, m_fdContexts, tasks,
                   activeThreadCount, idleThreadCount, stoppingFlag, cur, idleLocal,
                   timerVars, fiberState, nextId, crashed, fired>>

\* timers added by user code and by a task on a worker while the caller
\* thread asks for the next timeout
NextFront ==
    \/ \E t \in Threads :
          \/ \E ms \in TimerPeriods, recurring \in BOOLEAN : AddTimerInsert(t, ms, recurring)
          \/ AddTimerFront(t)
          \/ UserSchedule(t, -1)
    \/ OpGetNextTimer
    \/ RunLoop
SpecFront == Init /\ [][NextFront]_vars

\* C32: add_timer chooses to call on_timer_inserted_at_front exactly when
\* the timer it inserted is the earliest and the tickled flag was not set,
\* and sets the flag exactly then; at most one front-insertion notification
\* is issued between two consecutive next_timeout calls.
C32_OneFrontNotificationPerWindow ==
    /\ hist.call.op = "addTimer"
          => /\ (hist.call.rt = 1) <=> (/\ FirstTimer(hist.call.tm1, hist.call.set1) = hist.call.k
                                        /\ ~hist.call.tickled)
             /\ hist.call.tickled1 = (hist.call.tickled \/ hist.call.rt = 1)
    /\ hist.front.issued <= 1

\* C32 as amended: the choice is made as stated, and at most one add_timer
\* call makes it (sets the flag) between two consecutive next_timeout
\* calls; every notification chosen since the last next_timeout call has
\* been issued or is about to be, by a thread that has left the timer lock.
C32_OneFrontDecisionPerWindow ==
    /\ hist.call.op = "addTimer"
          => /\ (hist.call.rt = 1) <=> (/\ FirstTimer(hist.call.tm1, hist.call.set1) = hist.call.k
                                        /\ ~hist.call.tickled)
             /\ hist.call.tickled1 = (hist.call.tickled \/ hist.call.rt = 1)
    /\ hist.front.decided <= 1
    /\ hist.front.decided = 1 <=> m_tickled
    /\ hist.front.decided
          <= hist.front.issued + Cardinality({t \in Threads : pc[t] = "timer_front"})

\* a notification chosen before a next_timeout call was issued after it,
\* as was the one chosen after that call
C32_Witness ==
    /\ hist.front = [decided |-> 1, issued |-> 2]
    /\ m_timers = TimerIds

\* ------------------------------------------------------------------ C33
\* the queue under schedule calls with and without a thread hint and the
\* continuations of cancelled events, callbacks and fibers
NextPick ==
    \/ \E t \in Threads, hint \in {-1} \cup Threads : UserSchedule(t, hint)
    \/ \E t \in Threads, fd \in Fds, event \in Events :
          \/ \E withCb \in BOOLEAN : AddEvent(t, fd, event, withCb, FALSE)
          \/ CancelEvent(t, fd, event, FALSE)
    \/ RunLoop
SpecPick == Init /\ [][NextPick]_vars

\* C33: the task a worker removes is the first one from the head of the
\* queue whose thread hint is -1 or the worker's own id and whose fiber, if
\* it has one, is not RUNNING; the other tasks stay in the queue in the
\* order they had.
C33_PickIsFifo ==
    [][\A t \in Threads :
          (pc[t] = "run" /\ pc'[t] = "task")
             => \E i \in 1 .. Len(tasks) :
                   /\ cur'[t].task = tasks[i]
                   /\ tasks[i].thread \in {-1, t}
                   /\ tasks[i].fiber = 0 \/ fiberState[tasks[i].fiber] # "RUNNING"
                   /\ \A j \in 1 .. (i - 1) :
                         \/ tasks[j].thread \notin {-1, t}
                         \/ tasks[j].fiber # 0 /\ fiberState[tasks[j].fiber] = "RUNNING"
                   /\ Len(tasks') = Len(tasks) - 1
                   /\ \A j \in 1 .. Len(tasks') :
                         tasks'[j] = IF j < i THEN tasks[j] ELSE tasks[j + 1]]_vars

\* a worker has taken the third task of the queue and left the two before
\* it, one hinted to the other thread and one whose fiber is running
C33_Witness ==
    /\ hist.pick = 2
    /\ \E t \in Threads :
          /\ pc[t] = "task"
          /\ Len(tasks) = 2
          /\ tasks[1].thread \notin {-1, t}
          /\ tasks[2].fiber # 0 /\ fiberState[tasks[2].fiber] = "RUNNING"

\* ------------------------------------------------------------------ C34
\* do_io on a socket with a receive timeout, called by a scheduled task for
\* READ on fd 0; fun() has returned -1 with EAGAIN.
IoFd == 0
IoTimeouts == {1}

\* do_io from "if(n == -1 && errno == EAGAIN)" to the yield: a condition
\* timer bound to winfo, addEvent(fd, event) for the current fiber, yield().
\* tm0 and set0 are the timers as the caller found or left them.
DoIoArm(t, tm0, set0, io0) ==
    /\ nextId.timer < NumTimers
    /\ nextId.reg < MaxRegs
    /\ InTable(IoFd)
    /\ \E ms \in IoTimeouts :
         LET k == nextId.timer + 1
             f == cur[t].fiber
             r0 == addConditionTimer(tm0, set0, m_tickled, k, ms, FALSE, clock)
             r == [r0 EXCEPT !.tm = [r0.tm EXCEPT ![k].cb = <<"io", k>>]]
             s0 == [IOState(IoFd) EXCEPT !.tickleBytes =
                       IF r.at_front THEN tickle(tickleBytes, idleThreadCount)
                       ELSE tickleBytes]
             s1 == addEvent(s0, READ, NoCb, f, nextId.reg + 1, FALSE)
             fs == yield(fiberState, f)
         IN  /\ s1.rt = 0
             /\ timer' = r.tm
             /\ m_timers' = r.set
             /\ m_tickled' = r.tickled
             /\ fdContexts' = [fdContexts EXCEPT ![IoFd] = s1.fc]
             /\ epollInterest' = [epollInterest EXCEPT ![IoFd] = s1.ep]
             /\ pendingEventCount' = s1.pending
             /\ tickleBytes' = s1.tickleBytes
             /\ fiberState' = Release(fs, fdContexts', tasks)
             /\ hist' = [FrontCall(hist, r.at_front) EXCEPT
                            !.ops = <<>>,
                            !.dtor = Dtor(fs, fdContexts', tasks),
                            !.io = [io0 EXCEPT !.fiber = f, !.timer = k, !.waits = @ + 1]]
    /\ nextId' = [nextId EXCEPT !.timer = @ + 1, !.reg = @ + 1]
    /\ activeThreadCount' = activeThreadCount - 1
    /\ cur' = [cur EXCEPT ![t] = NoCur]
    /\ idleLocal' = SetThis(idleLocal, t, "main")
    /\ pc' = [pc EXCEPT ![t] = "run"]
    /\ UNCHANGED <<m_fdContexts, addLocal, tasks, idleThreadCount, stoppingFlag,
                   m_previousTime, clock, crashed, fired>>

\* a task calls a hooked read: do_io up to its first yield
DoIoWait(t) ==
    /\ ~crashed
    /\ pc[t] = "task"
    /\ cur[t].task.cb[1] = "user"
    /\ hist.io.fiber = 0
    /\ DoIoArm(t, timer, m_timers, NoIo)

\* do_io after the yield: if(timer) timer->cancel(); with tinfo->cancelled
\* set it returns -1 (errno = ETIMEDOUT), else it goes to retry, where fun()
\* returns data or EAGAIN again.  On return tinfo is destroyed, which
\* expires the weak pointers held by the timers of the call.
DoIoResume(t, again) ==
    /\ ~crashed
    /\ pc[t] = "task"
    /\ hist.io.fiber # 0
    /\ cur[t].task.fiber = hist.io.fiber
    /\ hist.io.result = "none"
    /\ LET c == cancelTimer(timer, m_timers, hist.io.timer)
           dropped == [k \in TimerIds |->
                          IF c.tm[k].witness = "alive"
                          THEN [c.tm[k] EXCEPT !.witness = "dropped"] ELSE c.tm[k]]
       IN  IF ~hist.io.cancelled /\ again
           THEN DoIoArm(t, c.tm, c.set, hist.io)
           ELSE /\ timer' = dropped
                /\ m_timers' = c.set
                /\ hist' = [hist EXCEPT !.io.result =
                               IF hist.io.cancelled THEN "timeout" ELSE "data"]
                /\ UNCHANGED <<ioVars, schedVars, threadVars, m_tickled, m_previousTime,
                               clock, fiberState, nextId, crashed, fired>>

\* a worker runs the callback of a do_io timer: OnTimer locks the weak
\* pointer; the lambda returns if tinfo is gone or tinfo->cancelled is set,
\* else sets it to ETIMEDOUT and calls cancelEvent(fd, event).  The callback
\* fiber then ends.
IoTimerRun(t) ==
    /\ ~crashed
    /\ pc[t] = "task"
    /\ cur[t].task.cb[1] = "io"
    /\ \E ub \in UBChoices(fdContexts[IoFd], {READ}) :
         LET k == cur[t].task.cb[2]
             fire == OnTimer(timer[k].witness) /\ ~hist.io.cancelled
             s0 == IOState(IoFd)
             s1 == IF fire /\ InTable(IoFd)
                   THEN cancelEvent(s0, READ, FALSE, idleThreadCount, ub) ELSE s0
             fs == MainFunc(fiberState, cur[t].fiber)
         IN  /\ fdContexts' = [fdContexts EXCEPT ![IoFd] = s1.fc]
             /\ epollInterest' = [epollInterest EXCEPT ![IoFd] = s1.ep]
             /\ pendingEventCount' = s1.pending
             /\ tasks' = s1.tasks
             /\ tickleBytes' = s1.tickleBytes
             /\ fired' = s1.fired
             /\ crashed' = s1.crashed
             /\ fiberState' = Release(fs, fdContexts', tasks')
             /\ hist' = [hist EXCEPT
                            !.ops = <<>>,
                            !.dtor = Dtor(fs, fdContexts', tasks'),
                            !.io = IF fire
                                   THEN [@ EXCEPT !.cancelled = TRUE,
                                                  !.stale = (k # hist.io.timer),
                                                  !.hit = (s1.rt = 1)]
                                   ELSE @]
    /\ activeThreadCount' = activeThreadCount - 1
    /\ cur' = [cur EXCEPT ![t] = NoCur]
    /\ idleLocal' = SetThis(idleLocal, t, "main")
    /\ pc' = [pc EXCEPT ![t] = "run"]
    /\ UNCHANGED <<m_fdContexts, addLocal, idleThreadCount, stoppingFlag, timerVars,
                   nextId>>

\* one task that reads from a socket with a timeout, under the run loops,
\* the idle fibers, the clock and stop()
NextDoIo ==
    \/ \E t \in Threads :
          \/ UserSchedule(t, -1)
          \/ DoIoWait(t)
          \/ \E again \in BOOLEAN : DoIoResume(t, again)
          \/ IoTimerRun(t)
    \/ RunLoop \/ IdleLoop \/ TimerLoop \/ Clock \/ StopApi
SpecDoIo == Init /\ [][NextDoIo]_vars

\* C34: do_io returns the timed-out error only if the timer armed for the
\* wait it was in expired and its cancel_event removed the registration of
\* that wait; the callback of a timer armed for an earlier wait of the call
\* never sets the shared flag (and so never cancels a later registration).
C34_TimeoutOnlyFromCurrentTimer ==
    /\ hist.io.cancelled => ~hist.io.stale
    /\ hist.io.result = "timeout" => (hist.io.hit /\ ~hist.io.stale)

\* ------------------------------------------------------------------ C35
\* C35: every queue entry is removed by exactly one worker, which runs it
\* once: a step either leaves the entries of the queue in place (adding new
\* ones at its tail) or removes one entry, which becomes the task of the
\* one thread that took it; and a task scheduled by schedule(cb) is pushed
\* by that call, is never in two places (queue, workers), leaves the queue
\* only into the worker that picked it and leaves that worker only when the
\* worker has run it.
C35_EachTaskPickedOnce ==
    [][LET InQueue(q, c) == Cardinality({i \in 1 .. Len(q) : q[i].cb = c})
           Held(cu, c) == Cardinality({t \in Threads : cu[t].task.cb = c})
           Picked(t) == pc[t] = "run" /\ pc'[t] = "task"
       IN  /\ \/ /\ Len(tasks') >= Len(tasks)
                 /\ \A i \in 1 .. Len(tasks) : tasks'[i] = tasks[i]
                 /\ \A t \in Threads : ~Picked(t)
              \/ \E t \in Threads, i \in 1 .. Len(tasks) :
                    /\ Picked(t) /\ cur'[t].task = tasks[i]
                    /\ Len(tasks') = Len(tasks) - 1
                    /\ \A j \in 1 .. Len(tasks') :
                          tasks'[j] = IF j < i THEN tasks[j] ELSE tasks[j + 1]
                    /\ \A u \in Threads \ {t} : ~Picked(u) /\ cur'[u] = cur[u]
           /\ \A n \in 1 .. MaxUserTasks :
                 LET c == <<"user", n>> IN
                 /\ InQueue(tasks', c) + Held(cur', c) <= 1
                 /\ (nextId.user < n /\ nextId'.user >= n) => InQueue(tasks', c) = 1
                 /\ nextId'.user < n => InQueue(tasks', c) + Held(cur', c) = 0
                 /\ InQueue(tasks', c) > InQueue(tasks, c) => nextId.user < n
                 /\ (InQueue(tasks, c) = 1 /\ InQueue(tasks', c) = 0)
                       => \E t \in Threads : Picked(t) /\ cur'[t].task.cb = c
                 /\ (Held(cur, c) = 1 /\ Held(cur', c) = 0)
                       => \E t \in Threads : /\ cur[t].task.cb = c
                                             /\ pc[t] = "task" /\ pc'[t] = "run"]_vars

\* both workers hold a task, each a different entry of the queue, while
\* another entry waits
C35_Witness ==
    /\ \A t \in Threads : pc[t] = "task" /\ cur[t].task # NoTask
    /\ \E t, u \in Threads : cur[t].task.cb # cur[u].task.cb
    /\ \E t \in Threads : cur[t].task.cb[1] = "user"

\* ------------------------------------------------------------------ C36
\* C36: active_thread_count is the number of workers that have picked a
\* task and are not back from resuming it, idle_thread_count the number of
\* workers inside the resume of their idle fiber; their sum lies between 0
\* and the number of workers, and while Scheduler::stopping() is true no
\* worker is executing a task.
C36_CountsMatchWorkers ==
    LET Active == {t \in Threads :
                      \/ pc[t] \in {"task", "sleep_yield", "sleep_swap"}
                      \/ pc[t] \in {"add_lock", "timer_front"} /\ addLocal[t].ret = "task"}
        Idle == {t \in Threads : pc[t] \in IdlePcs}
    IN  /\ activeThreadCount = Cardinality(Active)
        /\ idleThreadCount = Cardinality(Idle)
        /\ 0 <= activeThreadCount + idleThreadCount
        /\ activeThreadCount + idleThreadCount <= NumThreads
        /\ SchedulerStopping => Active = {}

\* stop() has been called and the queue is empty; one worker is inside its
\* idle fiber while the other still runs a task, so stopping() is false
C36_Witness ==
    /\ stoppingFlag /\ tasks = <<>>
    /\ activeThreadCount = 1 /\ idleThreadCount = 1
    /\ \E t \in Threads : pc[t] = "task"
    /\ \E t \in Threads : pc[t] \in IdlePcs

\* ---------------------------------------------------------------------
\* IOManager(1, true): Scheduler::Scheduler takes the caller thread as the
\* one worker (--threads leaves m_threadCount = 0) and start() creates no
\* thread.  The caller registers callbacks, schedules tasks and adds timers,
\* then calls stop() (the destructor does), which resumes m_rootFiber.
CallerApi ==
    \/ \E hint \in {-1, CallerThread} : UserSchedule(CallerThread, hint)
    \/ \E fd \in Fds, event \in Events : AddEvent(CallerThread, fd, event, TRUE, FALSE)
    \/ \E fd \in Fds, event \in Events : CancelEvent(CallerThread, fd, event, FALSE)
    \/ \E ms \in TimerPeriods : AddTimer(CallerThread, ms, FALSE)
    \/ Stop(CallerThread)
    \/ StopJoin(CallerThread)

NextCaller == CallerApi \/ Clock \/ ThreadStep(CallerThread)
SpecCaller == InitState(0, FromInt(0), 1, {}) /\ [][NextCaller]_vars

\* C37: in use_caller mode the caller thread is outside the run loop and
\* holds no task until stop() has set m_stopping; when the caller is the
\* only thread of the scheduler, until then nothing is taken from the queue
\* (every task enqueued by schedule() or by a cancelled registration is
\* still there and no thread is active), and once stop() has returned the
\* queue is empty, no task is held, no event is registered or pending and no
\* timer is left.
C37_CallerRunsOnlyInStop ==
    LET NoWorkers == \A t \in Threads \ {CallerThread} : pc[t] = "exit"
    IN  /\ ~stoppingFlag =>
              /\ pc[CallerThread] \in {"user", "add_lock", "timer_front"}
              /\ cur[CallerThread] = NoCur
        /\ (NoWorkers /\ ~stoppingFlag) =>
              /\ Len(tasks) = nextId.user + nextId.enq
              /\ activeThreadCount = 0
              /\ idleThreadCount = 0
              /\ \A f \in FiberIds \ Threads : fiberState[f] = "NONE"
        /\ (NoWorkers /\ pc[CallerThread] = "stopped") =>
              /\ tasks = <<>>
              /\ \A t \in Threads : cur[t] = NoCur
              /\ activeThreadCount = 0
              /\ pendingEventCount = 0
              /\ \A fd \in AllFds : fdContexts[fd].events = {}
              /\ m_timers = {}

\* stop() has returned after a task scheduled before it, a callback
\* registered before it and a timer added before it have run
C37_Witness ==
    /\ \A t \in Threads \ {CallerThread} : pc[t] = "exit"
    /\ pc[CallerThread] = "stopped"
    /\ nextId.user = 1
    /\ nextId.timer = 1
    /\ \E r \in RegIds : fired[r] > 0

\* ---------------------------------------------------------------------
\* schedule(cb, thread) with a thread id that no thread of the scheduler
\* has: the id is stored in the task as given and only compared in run()
NoSuchThread == NumThreads + 1

HintApi ==
    \E t \in Threads :
        \/ \E hint \in {-1, NoSuchThread} : UserSchedule(t, hint)
        \/ \E fd \in Fds : AddEvent(t, fd, READ, TRUE, FALSE)
        \/ \E fd \in Fds : CancelEvent(t, fd, READ, FALSE)

NextHint == HintApi \/ RunLoop \/ IdleLoop \/ StopApi
SpecHint == Init /\ [][NextHint]_vars

\* C38: no step removes from m_tasks a task whose thread hint is neither -1
\* nor the id of a thread of the scheduler (it keeps its place behind the
\* tasks of the same kind queued before it) and no idle fiber ends in a step
\* that finds one queued; while such a task is queued Scheduler::stopping()
\* is false and stop() has not returned.
C38_ForeignHintBlocksStop ==
    [][LET Stuck(q) == {i \in 1 .. Len(q) : q[i].thread \notin ({-1} \cup Threads)}
           StuckSeq(q) == SelectSeq(q, LAMBDA x : x.thread \notin ({-1} \cup Threads))
       IN  /\ Stuck(tasks) # {} =>
                 /\ Len(StuckSeq(tasks')) >= Len(StuckSeq(tasks))
                 /\ SubSeq(StuckSeq(tasks'), 1, Len(StuckSeq(tasks))) = StuckSeq(tasks)
                 /\ \A t \in Threads : idleLocal'[t].term => idleLocal[t].term
           /\ Stuck(tasks') # {} =>
                 /\ ~SchedulerStopping'
                 /\ pc'[CallerThread] # "stopped"]_vars

\* stop() has been called and both threads have been through their idle
\* fiber and back while the task with the foreign hint is still queued
C38_Witness ==
    /\ stoppingFlag
    /\ tasks # <<>>
    /\ \A i \in 1 .. Len(tasks) : tasks[i].thread = NoSuchThread
    /\ activeThreadCount = 0
    /\ \A t \in Threads : pc[t] = "idle_base"

\* ---------------------------------------------------------------------
\* Timer::refresh and Timer::reset among addTimer, cancel, getNextTimer and
\* listExpiredCb calls, on one thread
ResetOps ==
    \/ \E ms \in TimerPeriods, recurring \in BOOLEAN : OpAddTimer(ms, recurring)
    \/ \E k \in TimerIds : OpCancel(k)
    \/ \E k \in TimerIds : OpRefresh(k)
    \/ \E k \in TimerIds, ms \in ResetPeriods, from_now \in BOOLEAN : OpReset(k, ms, from_now)
    \/ OpGetNextTimer
    \/ OpListExpiredCb

NextReset == ResetOps \/ Clock
SpecReset == Init /\ [][NextReset]_vars

\* C40: a Timer::refresh or Timer::reset call leaves m_tickled as it was
\* and calls no onTimerInsertedAtFront() (no byte written to the wake-up
\* pipe, no front decision recorded), whatever place the re-inserted timer
\* takes; a step that sets m_tickled or issues the notification is an
\* addTimer call.
C40_RefreshResetNeverNotify ==
    [][LET c == hist'.call IN
       /\ (c # hist.call /\ c.op \in {"refresh", "reset"}) =>
             /\ m_tickled' = m_tickled
             /\ tickleBytes' = tickleBytes
             /\ hist'.front = hist.front
       /\ ((m_tickled' /\ ~m_tickled) \/ hist'.front.issued > hist.front.issued) =>
             c.op = "addTimer"]_vars

\* a reset that moved its timer from behind another one to the front of the
\* set while m_tickled was false
C40_Witness ==
    LET c == hist.call IN
    /\ c.op = "reset"
    /\ c.rt = 1
    /\ Cardinality(c.set) = 2
    /\ FirstTimer(c.tm, c.set) # c.k
    /\ FirstTimer(c.tm1, c.set1) = c.k
    /\ ~c.tickled
    /\ ~m_tickled
    /\ hist.front = NoFront

\* C39: between the operations of the timer manager (each runs under the
\* write lock), every timer that addTimer created has a callback exactly
\* when it is in m_timers: cancel and the expiry of a one-shot timer clear
\* the callback and remove the timer together, refresh, reset and the
\* re-insertion of a recurring timer keep both.  So the find() in
\* Timer::cancel, which runs only when the callback is set, is given a
\* member of the set.
C39_CallbackIffInSet ==
    /\ m_timers \subseteq {k \in TimerIds : timer[k].allocated}
    /\ \A k \in TimerIds :
          timer[k].allocated => ((timer[k].cb # NoCb) <=> (k \in m_timers))
    /\ \A a, b \in m_timers : a # b => (TimerLess(timer, a, b) <=> ~TimerLess(timer, b, a))
    /\ hist.call.op = "cancel" =>
          ((hist.call.rt = 1) <=> (hist.call.k \in hist.call.set))

\* one timer was cancelled while in the set, the other, recurring, has been
\* returned by listExpiredCb and is back in the set with its next deadline
C39_Witness ==
    /\ hist.call.op = "listExpiredCb"
    /\ hist.call.rt = 1
    /\ Cardinality(m_timers) = 1
    /\ \E k \in TimerIds : timer[k].allocated /\ timer[k].cancelled /\ k \notin m_timers
    /\ \E k \in m_timers : timer[k].recurring /\ timer[k].next > clock + timer[k].ms - 1

====
